---------------------------- MODULE Spec2Model ----------------------------
(***************************************************************************)
(* A model of the Instagram unfollow bot (Selenium edition):               *)
(*   src/src/compare.py   compare, load_json_list                          *)
(*   src/main.py          main, ask_user_to_proceed, load_existing_targets *)
(*   src/src/unfollow.py  unfollow_user, run_unfollow_session              *)
(*   src/src/helpers.py   pacing and cooldown helpers                      *)
(*                                                                         *)
(* Strings are sequences of character codes (Python code points), so that  *)
(* lower(), strip() and sorted() are computed, not assumed.                *)
(***************************************************************************)
EXTENDS Integers, Sequences, FiniteSets, TLC

VARIABLES
    \* ---- compare(): arguments, the files it reads and writes, its result
    followingArg,     \* [given, items]: the `following` argument (None when not given)
    followersArg,     \* [given, items]: the `followers` argument (None when not given)
    whitelistFile,    \* config/whitelist.json          [kind, items]
    followersFile,    \* data/followers.json            [kind, items]
    followingFile,    \* data/following.json            [kind, items]
    outputFile,       \* data/not_following_back.json   [kind, items]
    result,           \* [returned, items]: what the last compare() call returned
    calls,            \* number of compare() calls made by the harness
    prev,             \* [result, output]: result and outputFile before the last call
    \* ---- main(): one run of the bot
    mpc,              \* where main() is: idle, settle, try, scraped, preview, session,
                      \* finally, exited
    args,             \* [dry_run, skip_scrape]: the command-line flags
    targets,          \* main's `targets`
    answer,           \* [kind, text]: what input() gave at the proceed prompt
    sessionCalls,     \* run_unfollow_session() invocations in this run
    unfollowCalls,    \* usernames passed to unfollow_user() in this run, in order
    quitCalls,        \* driver.quit() calls in this run
    \* ---- run_unfollow_session() and unfollow_user(); time is in tenths of a second
    spc,              \* where the session is (see the actions below)
    dry_run,          \* the dry_run argument
    index,            \* the loop's `index`: targets[index] is the current username
    now,              \* time.time(), measured from the start of the session
    hour_start,       \* the loop's `hour_start`
    hour_unfollow_count,  \* the loop's `hour_unfollow_count`
    stats,            \* the `stats` dict
    waitLeft,         \* 60 s blocks the quota wait still has to sleep
    gate,             \* [how, found, base]: what the last quota check did, the count it
                      \* read, and stats.unfollowed when the window was last reset
    outcome,          \* what unfollow_user returned for the current target ("none": running)
    cdLeft,           \* seconds auto_pause_after_rate_limit still has to sleep
    cd,               \* the last auto_pause_after_rate_limit call (see NoPause)
    visit,            \* [loads, clicks, class]: what unfollow_user did to the current profile
    driverCalls,      \* driver interactions since the session began
    wall,             \* [no, count]: the wall-clock hour of the last unfollow, and the
                      \* unfollows confirmed in that hour
    last,             \* [outcome, pace, delay]: the last finished target and its pacing sleep
    deviations,       \* departures from the fastest path the session may still make
    \* ---- scrape_following(): one harvest of the Following list
    hpc,              \* where the harvest is (see the actions below)
    attempt,          \* the loop's `attempt`
    expected_count,   \* what _read_expected_count returned in this attempt (0: unread)
    source,           \* [stops, size]: how the list in the modal loads (see Height)
    round,            \* scrolls made by _scroll_modal_to_end in this attempt
    last_height,      \* its `last_height`
    stale_rounds,     \* its `stale_rounds`
    requests,         \* driver requests made by the latest step of the harvest
    usernames,        \* `following`: what _extract_usernames returned in this attempt
    best,             \* size of the largest list an attempt of this harvest extracted
    located,          \* whether _get_modal has found the modal in some attempt
    cooloff,          \* [retries, slept]: retries after a low count; the sleep just made
    harvested         \* [returned, items]: what scrape_following returned

compareVars == <<followingArg, followersArg, result, calls, prev>>
diskVars    == <<whitelistFile, followersFile, followingFile, outputFile>>
mainVars    == <<mpc, args, targets, answer, sessionCalls, unfollowCalls, quitCalls>>

quotaVars   == <<hour_start, hour_unfollow_count, waitLeft, gate>>
userVars    == <<outcome, cdLeft, cd, visit>>
sessionVars == <<spc, dry_run, index, now, quotaVars, stats, userVars, driverCalls,
                 wall, last, deviations>>

harvestVars == <<hpc, attempt, expected_count, source, round, last_height, stale_rounds,
                 requests, usernames, best, located, cooloff, harvested>>

vars == <<compareVars, diskVars, mainVars, sessionVars, harvestVars>>

----------------------------------------------------------------------------
(* Bounds of the model *)

\* Total number of list entries the harness puts into compare()'s inputs.
MaxEntries == 3

\* Number of compare() calls the harness makes on the same inputs.
MaxCalls == 2

\* Longest following list one scrape returns to main().
MaxScrape == 2

\* Most entries the user puts into config/whitelist.json between runs of main().
MaxWhitelist == 1

\* Length of the target list of a short session.
MaxTargets == 3

\* Most departures of a short session from the fastest path: a rate-limit
\* phrase, a target that is not unfollowed, a sleep longer than the shortest.
MaxDeviations == 3

\* Length of the target list of a session that runs into its second hour.
HourTargets == 28

\* Most departures of such a session from the fastest path.
HourDeviations == 2

\* Most departures of a harvest from the plain path: a rate-limit phrase, a
\* stale modal element, a failed extraction.
HarvestDeviations == 1

\* Length of the target list, and most departures, of a session that draws its
\* cooldown from all of 10.0 .. 20.0 minutes.
PauseTargets == 1
PauseDeviations == 1

----------------------------------------------------------------------------
(* Strings *)

\* Raw handles: "", "a", "A ", "b", "ab" (32 = space, 65 = A, 97 = a, 98 = b).
Handles == { <<>>, <<97>>, <<65, 32>>, <<98>>, <<97, 98>> }

\* str.lower() on ASCII letters.
LowerChar(c) == IF c >= 65 /\ c <= 90 THEN c + 32 ELSE c

Lower(s) == [i \in 1..Len(s) |-> LowerChar(s[i])]

\* ASCII whitespace, as removed by str.strip().
IsSpace(c) == c \in {9, 10, 11, 12, 13, 32}

RECURSIVE LStrip(_)
LStrip(s) == IF s # <<>> /\ IsSpace(Head(s)) THEN LStrip(Tail(s)) ELSE s

RECURSIVE RStrip(_)
RStrip(s) ==
    IF s # <<>> /\ IsSpace(s[Len(s)]) THEN RStrip(SubSeq(s, 1, Len(s) - 1)) ELSE s

Strip(s) == RStrip(LStrip(s))

\* u.lower().strip()
Normalize(u) == Strip(Lower(u))

\* Python truthiness of a string: `if u`.
Truthy(u) == u # <<>>

\* Python's str ordering: lexicographic on code points, a proper prefix first.
RECURSIVE StrLess(_, _)
StrLess(a, b) ==
    IF a = <<>> THEN b # <<>>
    ELSE IF b = <<>> THEN FALSE
    ELSE IF Head(a) # Head(b) THEN Head(a) < Head(b)
    ELSE StrLess(Tail(a), Tail(b))

\* sorted(S, reverse=True): the order a wrong sort direction would give.
RECURSIVE SortedDescending(_)
SortedDescending(S) ==
    IF S = {} THEN <<>>
    ELSE LET m == CHOOSE x \in S : \A y \in S : x = y \/ StrLess(y, x)
         IN  <<m>> \o SortedDescending(S \ {m})

\* sorted(S) for a set of strings.
RECURSIVE Sorted(_)
Sorted(S) ==
    IF S = {} THEN <<>>
    ELSE LET m == CHOOSE x \in S : \A y \in S : x = y \/ StrLess(x, y)
         IN  <<m>> \o Sorted(S \ {m})

Range(s) == {s[i] : i \in 1..Len(s)}

----------------------------------------------------------------------------
(* compare.py *)

NoArg       == [given |-> FALSE, items |-> <<>>]
Arg(l)      == [given |-> TRUE, items |-> l]
MissingFile == [kind |-> "missing", items |-> <<>>]
ListFile(l) == [kind |-> "list", items |-> l]

\* load_json_list: a list is returned as is, a dict yields its "whitelist"
\* entry, a missing or undecodable file yields [].
load_json_list(file) ==
    IF file.kind \in {"list", "dict"} THEN file.items ELSE <<>>

\* {u.lower().strip() for u in lst if u}
NormSet(lst) == {Normalize(lst[i]) : i \in {j \in 1..Len(lst) : Truthy(lst[j])}}

\* compare() with the whitelist subtraction left out.
compareNoWhitelist(fArg, rArg, fFile, rFile, wFile) ==
    LET following == IF fArg.given THEN fArg.items ELSE load_json_list(fFile)
        followers == IF rArg.given THEN rArg.items ELSE load_json_list(rFile)
    IN  Sorted(NormSet(following) \ NormSet(followers))

\* compare() made resumable the wrong way: it drops what the target file on
\* disk already lists, so its result depends on the calls made before.
compareSkippingPersisted(fArg, rArg, fFile, rFile, wFile) ==
    LET following      == IF fArg.given THEN fArg.items ELSE load_json_list(fFile)
        followers      == IF rArg.given THEN rArg.items ELSE load_json_list(rFile)
        whitelist_data == load_json_list(wFile)
    IN  Sorted(((NormSet(following) \ NormSet(followers)) \ NormSet(whitelist_data))
                   \ Range(load_json_list(outputFile)))

\* The list compare() returns, from its two arguments and the files it reads.
compare(fArg, rArg, fFile, rFile, wFile) ==
    LET following      == IF fArg.given THEN fArg.items ELSE load_json_list(fFile)
        followers      == IF rArg.given THEN rArg.items ELSE load_json_list(rFile)
        whitelist_data == load_json_list(wFile)
        not_following_back ==
            (NormSet(following) \ NormSet(followers)) \ NormSet(whitelist_data)
    IN  Sorted(not_following_back)

----------------------------------------------------------------------------
(* helpers.py and unfollow.py: timing *)

\* Seconds in the model's unit of time, a tenth of a second.
Sec(n) == 10 * n

MAX_UNFOLLOWS_PER_HOUR == 20

\* The length of the quota window, in seconds.
HourSeconds == 3600

\* The granularity of the quota wait and of the cooldown countdown, in seconds.
BlockSeconds == 60

Max(a, b) == IF a >= b THEN a ELSE b
Min(a, b) == IF a <= b THEN a ELSE b

\* int(time.time() - hour_start): whole seconds elapsed in the quota window.
ElapsedSeconds(t, start) == (t - start) \div 10

\* A wait that is not clamped to a minimum of one block.
wait_secondsUnclamped(t, start) == HourSeconds - ElapsedSeconds(t, start)

\* wait_seconds = max(60, 3600 - int(time.time() - hour_start))
wait_seconds(t, start) == Max(BlockSeconds, HourSeconds - ElapsedSeconds(t, start))

\* A pacing that takes the long delay after every target that did not fail.
PaceKindLongUnlessError(res) ==
    IF res = "error" THEN "backoff" ELSE "long"

\* The pacing sleep that follows a target, by the outcome of unfollow_user:
\* random_unfollow_delay, the error back-off, or brief_pause.
PaceKind(res) ==
    IF res = "unfollowed" THEN "long"
    ELSE IF res = "error" THEN "backoff"
    ELSE "brief"

\* A pacing that sleeps the long delay whatever the kind.
PaceDelaysAlwaysLong(kind) == <<Sec(170), Sec(240)>>

\* The sleeps the model draws for each kind, fastest first: randint(170, 240),
\* randint(60, 120), uniform(0.3, 1.2).
PaceDelays(kind) ==
    IF kind = "long" THEN <<Sec(170), Sec(240)>>
    ELSE IF kind = "backoff" THEN <<Sec(60), Sec(120)>>
    ELSE <<3, 12>>

\* time.sleep(random.uniform(0.5, 1.5)) of a dry run.
DryRunDelays == <<5, 15>>

\* The minutes, in tenths, whose product with 60 in binary floating point
\* falls just below the whole number: 16.4 * 60 and 16.9 * 60 give
\* 983.9999999999999 and 1013.9999999999999 (no other value of 10.0 .. 20.0).
TruncatedTenths == {164, 169}

\* seconds = int(minutes * 60) with minutes = round(random.uniform(10, 20), 1),
\* from the minutes in tenths: int() drops the fraction of the float product.
CooldownSeconds(tenths) ==
    IF tenths \in TruncatedTenths THEN tenths * 6 - 1 ELSE tenths * 6

\* What is known of the last call of auto_pause_after_rate_limit: whether it
\* is still running, the minutes it drew (in tenths), the seconds it has
\* slept, its sleeps, its "Resuming in" messages; and how many calls and how
\* many positive rate-limit checks there have been.
NoPause ==
    [active |-> FALSE, tenths |-> 0, slept |-> 0, chunks |-> 0, messages |-> 0,
     pauses |-> 0, detections |-> 0]

\* check_for_rate_limit returned True.
Detected(c) == [c EXCEPT !.detections = @ + 1]

\* auto_pause_after_rate_limit is entered and has drawn its minutes.
PauseBegun(c, tenths) ==
    [c EXCEPT !.active = TRUE, !.tenths = tenths, !.slept = 0, !.chunks = 0,
              !.messages = 0, !.pauses = @ + 1]

\* One round of its loop: log.info("Resuming in ..."), then
\* time.sleep(min(60, remaining)).
PauseChunk(c, remaining) ==
    [c EXCEPT !.messages = @ + 1, !.chunks = @ + 1,
              !.slept = @ + (IF remaining < 60 THEN remaining ELSE 60)]

\* All the rounds of its loop, from `remaining` seconds down.
RECURSIVE PauseChunks(_, _)
PauseChunks(c, remaining) ==
    IF remaining <= 0 THEN c
    ELSE PauseChunks(PauseChunk(c, remaining), remaining - 60)

\* auto_pause_after_rate_limit returns.
PauseReturned(c) == [c EXCEPT !.active = FALSE]

\* The cooldowns the model draws: 10.0 and 20.0 minutes.
CooldownTenths == {100, 200}

\* The sleeps inside unfollow_user take their minimum: human_sleep(2.5, 5.0)
\* after the first load, human_sleep(3.0, 5.5) after the reload,
\* human_sleep(1.0, 2.5) and two brief_pause (0.3) around each click,
\* human_sleep(1.5, 3.0) before the second check.
LoadSleep    == 25
ReloadSleep  == 30
ClickSleep   == 16
PostSleep    == 15

\* wait_for_element's timeout for each selector it tries, in seconds.
SelectorTimeout == 8
FollowingSelectors == 4
ConfirmSelectors == 3

----------------------------------------------------------------------------
(* unfollow.py: run_unfollow_session and unfollow_user *)

NoStats == [unfollowed |-> 0, skipped_private |-> 0, not_following |-> 0, errors |-> 0]
NoVisit == [loads |-> 0, clicks |-> 0, class |-> "none"]
NoLast  == [outcome |-> "none", pace |-> "none", delay |-> 0]

\* A departure from the fastest path uses up one of the session's deviations.
MayDeviate == deviations > 0

\* The wall-clock hour, counted from the start of the session, that holds time t.
WallHour(t) == t \div Sec(HourSeconds)

\* A count that leaves out the targets whose result is "error".
CountResultDroppingErrors(st, res) ==
    IF res = "unfollowed" THEN [st EXCEPT !.unfollowed = @ + 1]
    ELSE IF res = "skipped_private" THEN [st EXCEPT !.skipped_private = @ + 1]
    ELSE IF res = "not_following" THEN [st EXCEPT !.not_following = @ + 1]
    ELSE st

\* `stats` after the target's result has been counted (lines 265-273).
CountResult(st, res) ==
    IF res = "unfollowed" THEN [st EXCEPT !.unfollowed = @ + 1]
    ELSE IF res = "skipped_private" THEN [st EXCEPT !.skipped_private = @ + 1]
    ELSE IF res = "not_following" THEN [st EXCEPT !.not_following = @ + 1]
    ELSE [st EXCEPT !.errors = @ + 1]

\* A loop that gives the first target that fails a second iteration.
\* A loop that an error result ends.
NextTargetUnlessError ==
    IF index < Len(targets) /\ outcome # "error"
    THEN index' = index + 1 /\ spc' = "check"
    ELSE index' = index /\ spc' = "done"

NextTargetRepeatingErrors ==
    IF outcome = "error" /\ stats.errors = 0
    THEN index' = index /\ spc' = "check"
    ELSE IF index < Len(targets)
    THEN index' = index + 1 /\ spc' = "check"
    ELSE index' = index /\ spc' = "done"

\* The loop moves on to the next target, or ends and the session returns stats.
NextTarget ==
    IF index < Len(targets)
    THEN index' = index + 1 /\ spc' = "check"
    ELSE index' = index /\ spc' = "done"

\* No quota check has been made yet.
NoGate == [how |-> "none", found |-> 0, base |-> 0]

\* main has called run_unfollow_session: stats is zeroed; with no target it
\* returns at once, otherwise hour_start = time.time() and the loop begins.
SessionStart ==
    /\ mpc = "session"
    /\ spc = "start"
    /\ stats' = NoStats
    /\ IF targets = <<>>
       THEN spc' = "done" /\ UNCHANGED <<index, quotaVars>>
       ELSE /\ spc' = "check"
            /\ index' = 1
            /\ hour_start' = now
            /\ hour_unfollow_count' = 0
            /\ UNCHANGED <<waitLeft, gate>>
    /\ UNCHANGED <<compareVars, diskVars, mainVars, harvestVars>>
    /\ UNCHANGED <<dry_run, now, userVars, driverCalls, wall, last, deviations>>

\* A quota check that lets one target more through before it waits.
QuotaCheckOverCap ==
    /\ mpc = "session"
    /\ spc = "check"
    /\ LET expired == now - hour_start >= Sec(HourSeconds)
           start   == IF expired THEN now ELSE hour_start
           count   == IF expired THEN 0 ELSE hour_unfollow_count
       IN  /\ hour_start' = start
           /\ hour_unfollow_count' = count
           /\ IF count > MAX_UNFOLLOWS_PER_HOUR
              THEN /\ waitLeft' = wait_seconds(now, start) \div BlockSeconds
                   /\ spc' = "wait"
              ELSE /\ waitLeft' = 0
                   /\ spc' = "process"
           /\ gate' = [how   |-> IF expired THEN "rolled"
                                 ELSE IF count > MAX_UNFOLLOWS_PER_HOUR THEN "wait"
                                 ELSE "open",
                       found |-> hour_unfollow_count,
                       base  |-> IF expired THEN stats.unfollowed ELSE gate.base]
    /\ UNCHANGED <<compareVars, diskVars, mainVars, harvestVars>>
    /\ UNCHANGED <<dry_run, index, now, stats, userVars, driverCalls, wall, last,
                   deviations>>

\* A quota check that tests the cap before it looks at the age of the window.
QuotaCheckCapFirst ==
    /\ mpc = "session"
    /\ spc = "check"
    /\ LET expired == now - hour_start >= Sec(HourSeconds)
           capped  == hour_unfollow_count >= MAX_UNFOLLOWS_PER_HOUR
           start   == IF expired /\ ~capped THEN now ELSE hour_start
           count   == IF expired /\ ~capped THEN 0 ELSE hour_unfollow_count
       IN  /\ hour_start' = start
           /\ hour_unfollow_count' = count
           /\ IF capped
              THEN /\ waitLeft' = wait_seconds(now, start) \div BlockSeconds
                   /\ spc' = "wait"
              ELSE /\ waitLeft' = 0
                   /\ spc' = "process"
           /\ gate' = [how   |-> IF capped THEN "wait"
                                 ELSE IF expired THEN "rolled"
                                 ELSE "open",
                       found |-> hour_unfollow_count,
                       base  |-> IF expired /\ ~capped THEN stats.unfollowed ELSE gate.base]
    /\ UNCHANGED <<compareVars, diskVars, mainVars, harvestVars>>
    /\ UNCHANGED <<dry_run, index, now, stats, userVars, driverCalls, wall, last,
                   deviations>>

\* Top of the loop body (lines 232-245): reset the window after an hour, then
\* either go on to the target or start the quota wait.
QuotaCheck ==
    /\ mpc = "session"
    /\ spc = "check"
    /\ LET expired == now - hour_start >= Sec(HourSeconds)
           start   == IF expired THEN now ELSE hour_start
           count   == IF expired THEN 0 ELSE hour_unfollow_count
       IN  /\ hour_start' = start
           /\ hour_unfollow_count' = count
           /\ IF count >= MAX_UNFOLLOWS_PER_HOUR
              THEN /\ waitLeft' = wait_seconds(now, start) \div BlockSeconds
                   /\ spc' = "wait"
              ELSE /\ waitLeft' = 0
                   /\ spc' = "process"
           /\ gate' = [how   |-> IF expired THEN "rolled"
                                 ELSE IF count >= MAX_UNFOLLOWS_PER_HOUR THEN "wait"
                                 ELSE "open",
                       found |-> hour_unfollow_count,
                       base  |-> IF expired THEN stats.unfollowed ELSE gate.base]
    /\ UNCHANGED <<compareVars, diskVars, mainVars, harvestVars>>
    /\ UNCHANGED <<dry_run, index, now, stats, userVars, driverCalls, wall, last,
                   deviations>>

\* One round of the countdown: time.sleep(60).
QuotaWaitBlock ==
    /\ mpc = "session"
    /\ spc = "wait"
    /\ waitLeft > 0
    /\ waitLeft' = waitLeft - 1
    /\ now' = now + Sec(BlockSeconds)
    /\ UNCHANGED <<compareVars, diskVars, mainVars, harvestVars>>
    /\ UNCHANGED <<spc, dry_run, index, hour_start, hour_unfollow_count, gate, stats,
                   userVars, driverCalls, wall, last, deviations>>

\* A reset of the window that does not wait for the countdown.
QuotaWaitEndAtOnce ==
    /\ mpc = "session"
    /\ spc = "wait"
    /\ hour_start' = now
    /\ hour_unfollow_count' = 0
    /\ waitLeft' = 0
    /\ gate' = [gate EXCEPT !.base = stats.unfollowed]
    /\ spc' = "process"
    /\ UNCHANGED <<compareVars, diskVars, mainVars, harvestVars>>
    /\ UNCHANGED <<dry_run, index, now, stats, userVars, driverCalls, wall,
                   last, deviations>>

\* After the countdown (lines 250-252): hour_start = time.time(), count = 0.
QuotaWaitEnd ==
    /\ mpc = "session"
    /\ spc = "wait"
    /\ waitLeft = 0
    /\ hour_start' = now
    /\ hour_unfollow_count' = 0
    /\ gate' = [gate EXCEPT !.base = stats.unfollowed]
    /\ spc' = "process"
    /\ UNCHANGED <<compareVars, diskVars, mainVars, harvestVars>>
    /\ UNCHANGED <<dry_run, index, now, waitLeft, stats, userVars, driverCalls,
                   wall, last, deviations>>

\* A dry-run iteration that drives the browser all the same.
DryRunStepVisiting(i) ==
    /\ mpc = "session"
    /\ spc = "process"
    /\ dry_run
    /\ (i = 1 \/ MayDeviate)
    /\ deviations' = deviations - (IF i = 1 THEN 0 ELSE 1)
    /\ stats' = [stats EXCEPT !.unfollowed = @ + 1]
    /\ now' = now + LoadSleep + DryRunDelays[i]
    /\ driverCalls' = driverCalls + 1
    /\ last' = [outcome |-> "dry_run", pace |-> "dry_run", delay |-> DryRunDelays[i]]
    /\ NextTarget
    /\ UNCHANGED <<compareVars, diskVars, mainVars, harvestVars>>
    /\ UNCHANGED <<dry_run, quotaVars, userVars, wall>>

\* The dry-run branch (lines 256-260): count the target as unfollowed, sleep
\* 0.5-1.5 s, continue.
DryRunStep(i) ==
    /\ mpc = "session"
    /\ spc = "process"
    /\ dry_run
    /\ (i = 1 \/ MayDeviate)
    /\ deviations' = deviations - (IF i = 1 THEN 0 ELSE 1)
    /\ stats' = [stats EXCEPT !.unfollowed = @ + 1]
    /\ now' = now + DryRunDelays[i]
    /\ last' = [outcome |-> "dry_run", pace |-> "dry_run", delay |-> DryRunDelays[i]]
    /\ NextTarget
    /\ UNCHANGED <<compareVars, diskVars, mainVars, harvestVars>>
    /\ UNCHANGED <<dry_run, quotaVars, userVars, driverCalls, wall>>

\* unfollow_user begins (lines 143-148): driver.get(profile_url), human_sleep.
LoadProfile ==
    /\ mpc = "session"
    /\ spc = "process"
    /\ ~dry_run
    /\ outcome' = "none"
    /\ cdLeft' = 0
    /\ cd' = cd
    /\ visit' = [loads |-> 1, clicks |-> 0, class |-> "none"]
    /\ driverCalls' = driverCalls + 1
    /\ now' = now + LoadSleep
    /\ spc' = "loaded"
    /\ unfollowCalls' = Append(unfollowCalls, targets[index])
    /\ UNCHANGED <<compareVars, diskVars, harvestVars>>
    /\ UNCHANGED <<mpc, args, targets, answer, sessionCalls, quitCalls>>
    /\ UNCHANGED <<dry_run, index, quotaVars, stats, wall, last, deviations>>

\* The first check_for_rate_limit (lines 151-152): with a phrase on the page,
\* auto_pause_after_rate_limit draws its duration and starts counting down.
FirstRateCheck(limited, tenths) ==
    /\ mpc = "session"
    /\ spc = "loaded"
    /\ driverCalls' = driverCalls + 1
    /\ IF limited
       THEN /\ MayDeviate
            /\ deviations' = deviations - 1
            /\ cdLeft' = CooldownSeconds(tenths)
            /\ cd' = PauseBegun(Detected(cd), tenths)
            /\ spc' = "cooldown1"
       ELSE /\ spc' = "classify"
            /\ UNCHANGED <<cdLeft, cd, deviations>>
    /\ UNCHANGED <<compareVars, diskVars, mainVars, harvestVars>>
    /\ UNCHANGED <<dry_run, index, now, quotaVars, stats, outcome, visit, wall, last>>

\* A countdown that looks at the page again in every round.
CooldownBlockPolling ==
    /\ mpc = "session"
    /\ spc \in {"cooldown1", "cooldown2"}
    /\ cdLeft > 0
    /\ now' = now + Sec(Min(BlockSeconds, cdLeft))
    /\ cdLeft' = cdLeft - Min(BlockSeconds, cdLeft)
    /\ cd' = PauseChunk(cd, cdLeft)
    /\ driverCalls' = driverCalls + 1
    /\ UNCHANGED <<compareVars, diskVars, mainVars, harvestVars>>
    /\ UNCHANGED <<spc, dry_run, index, quotaVars, stats, outcome, visit,
                   wall, last, deviations>>

\* One round of the cooldown's countdown: time.sleep(min(60, remaining)).
CooldownBlock ==
    /\ mpc = "session"
    /\ spc \in {"cooldown1", "cooldown2"}
    /\ cdLeft > 0
    /\ now' = now + Sec(Min(BlockSeconds, cdLeft))
    /\ cdLeft' = cdLeft - Min(BlockSeconds, cdLeft)
    /\ cd' = PauseChunk(cd, cdLeft)
    /\ UNCHANGED <<compareVars, diskVars, mainVars, harvestVars>>
    /\ UNCHANGED <<spc, dry_run, index, quotaVars, stats, outcome, visit, driverCalls,
                   wall, last, deviations>>

\* A visit that goes on with the page it has after the first cooldown.
ReloadProfileSkipped ==
    /\ mpc = "session"
    /\ spc = "cooldown1"
    /\ cdLeft = 0
    /\ spc' = "classify"
    /\ cd' = PauseReturned(cd)
    /\ UNCHANGED <<compareVars, diskVars, mainVars, harvestVars>>
    /\ UNCHANGED <<dry_run, index, now, quotaVars, stats, outcome, cdLeft, visit,
                   driverCalls, wall, last, deviations>>

\* After the first cooldown (lines 154-155): the profile is loaded again.
ReloadProfile ==
    /\ mpc = "session"
    /\ spc = "cooldown1"
    /\ cdLeft = 0
    /\ visit' = [visit EXCEPT !.loads = @ + 1]
    /\ driverCalls' = driverCalls + 1
    /\ now' = now + ReloadSleep
    /\ spc' = "classify"
    /\ cd' = PauseReturned(cd)
    /\ UNCHANGED <<compareVars, diskVars, mainVars, harvestVars>>
    /\ UNCHANGED <<dry_run, index, quotaVars, stats, outcome, cdLeft, wall, last,
                   deviations>>

\* Lines 158-167: a private profile and a profile not followed are skipped.
Classify(class) ==
    /\ mpc = "session"
    /\ spc = "classify"
    /\ (class = "eligible" \/ MayDeviate)
    /\ deviations' = deviations - (IF class = "eligible" THEN 0 ELSE 1)
    /\ driverCalls' = driverCalls + 1
    /\ visit' = [visit EXCEPT !.class = class]
    /\ IF class = "private"
       THEN outcome' = "skipped_private" /\ spc' = "account"
       ELSE IF class = "not_following"
       THEN outcome' = "not_following" /\ spc' = "account"
       ELSE outcome' = "none" /\ spc' = "click"
    /\ UNCHANGED <<compareVars, diskVars, mainVars, harvestVars>>
    /\ UNCHANGED <<dry_run, index, now, quotaVars, stats, cdLeft, cd, wall, last>>

\* Lines 170-174: _click_following_button; with no selector matching, each has
\* waited out its timeout and the result is "error".
ClickFollowing(found) ==
    /\ mpc = "session"
    /\ spc = "click"
    /\ driverCalls' = driverCalls + 1
    /\ IF found
       THEN /\ visit' = [visit EXCEPT !.clicks = @ + 1]
            /\ now' = now + ClickSleep
            /\ spc' = "confirm"
            /\ UNCHANGED <<outcome, deviations>>
       ELSE /\ MayDeviate
            /\ deviations' = deviations - 1
            /\ now' = now + Sec(1) + Sec(FollowingSelectors * SelectorTimeout)
            /\ outcome' = "error"
            /\ spc' = "account"
            /\ UNCHANGED visit
    /\ UNCHANGED <<compareVars, diskVars, mainVars, harvestVars>>
    /\ UNCHANGED <<dry_run, index, quotaVars, stats, cdLeft, cd, wall, last>>

\* Lines 177-180: _confirm_unfollow; the click on "Unfollow" is the unfollow.
ConfirmUnfollow(found) ==
    /\ mpc = "session"
    /\ spc = "confirm"
    /\ driverCalls' = driverCalls + 1
    /\ IF found
       THEN /\ visit' = [visit EXCEPT !.clicks = @ + 1]
            /\ now' = now + ClickSleep
            /\ wall' = IF WallHour(now') = wall.no
                       THEN [wall EXCEPT !.count = @ + 1]
                       ELSE [no |-> WallHour(now'), count |-> 1]
            /\ spc' = "postcheck"
            /\ UNCHANGED <<outcome, deviations>>
       ELSE /\ MayDeviate
            /\ deviations' = deviations - 1
            /\ now' = now + Sec(1) + Sec(ConfirmSelectors * SelectorTimeout)
            /\ outcome' = "error"
            /\ spc' = "account"
            /\ UNCHANGED <<visit, wall>>
    /\ UNCHANGED <<compareVars, diskVars, mainVars, harvestVars>>
    /\ UNCHANGED <<dry_run, index, quotaVars, stats, cdLeft, cd, last>>

\* Lines 183-188: the second check_for_rate_limit, after the action; with a
\* phrase on the page the cooldown runs before "unfollowed" is returned.
SecondRateCheck(limited, tenths) ==
    /\ mpc = "session"
    /\ spc = "postcheck"
    /\ driverCalls' = driverCalls + 1
    /\ now' = now + PostSleep
    /\ IF limited
       THEN /\ MayDeviate
            /\ deviations' = deviations - 1
            /\ cdLeft' = CooldownSeconds(tenths)
            /\ cd' = PauseBegun(Detected(cd), tenths)
            /\ spc' = "cooldown2"
            /\ UNCHANGED outcome
       ELSE /\ outcome' = "unfollowed"
            /\ spc' = "account"
            /\ UNCHANGED <<cdLeft, cd, deviations>>
    /\ UNCHANGED <<compareVars, diskVars, mainVars, harvestVars>>
    /\ UNCHANGED <<dry_run, index, quotaVars, stats, visit, wall, last>>

\* A visit that reports a failure when the second check found the phrase.
ReturnErrorAfterCooldown ==
    /\ mpc = "session"
    /\ spc = "cooldown2"
    /\ cdLeft = 0
    /\ outcome' = "error"
    /\ spc' = "account"
    /\ cd' = PauseReturned(cd)
    /\ UNCHANGED <<compareVars, diskVars, mainVars, harvestVars>>
    /\ UNCHANGED <<dry_run, index, now, quotaVars, stats, cdLeft, visit, driverCalls,
                   wall, last, deviations>>

\* After the second cooldown: return "unfollowed".
ReturnUnfollowed ==
    /\ mpc = "session"
    /\ spc = "cooldown2"
    /\ cdLeft = 0
    /\ outcome' = "unfollowed"
    /\ spc' = "account"
    /\ cd' = PauseReturned(cd)
    /\ UNCHANGED <<compareVars, diskVars, mainVars, harvestVars>>
    /\ UNCHANGED <<dry_run, index, now, quotaVars, stats, cdLeft, visit, driverCalls,
                   wall, last, deviations>>

\* Lines 190-192: an exception raised by the driver before the unfollow is
\* confirmed is caught and the result is "error"; the driver.get of the reload
\* that follows the first cooldown can raise as well.
RaiseInVisit ==
    /\ mpc = "session"
    /\ \/ spc \in {"loaded", "classify", "click", "confirm"}
       \/ spc = "cooldown1" /\ cdLeft = 0
    /\ MayDeviate
    /\ deviations' = deviations - 1
    /\ outcome' = "error"
    /\ spc' = "account"
    /\ cd' = IF spc = "cooldown1" THEN PauseReturned(cd) ELSE cd
    /\ UNCHANGED <<compareVars, diskVars, mainVars, harvestVars>>
    /\ UNCHANGED <<dry_run, index, now, quotaVars, stats, cdLeft, visit, driverCalls,
                   wall, last>>

\* A loop that charges the window for every visit, whatever came of it.
AccountEveryVisit(i) ==
    /\ mpc = "session"
    /\ spc = "account"
    /\ (i = 1 \/ MayDeviate)
    /\ deviations' = deviations - (IF i = 1 THEN 0 ELSE 1)
    /\ stats' = CountResult(stats, outcome)
    /\ hour_unfollow_count' = hour_unfollow_count + 1
    /\ LET kind == PaceKind(outcome)
       IN  /\ now' = now + PaceDelays(kind)[i]
           /\ last' = [outcome |-> outcome, pace |-> kind, delay |-> PaceDelays(kind)[i]]
    /\ NextTarget
    /\ UNCHANGED <<compareVars, diskVars, mainVars, harvestVars>>
    /\ UNCHANGED <<dry_run, hour_start, waitLeft, gate, userVars, driverCalls, wall>>

\* Back in the loop (lines 263-286): count the result, then sleep by it.
Account(i) ==
    /\ mpc = "session"
    /\ spc = "account"
    /\ (i = 1 \/ MayDeviate)
    /\ deviations' = deviations - (IF i = 1 THEN 0 ELSE 1)
    /\ stats' = CountResult(stats, outcome)
    /\ hour_unfollow_count' =
          IF outcome = "unfollowed" THEN hour_unfollow_count + 1 ELSE hour_unfollow_count
    /\ LET kind == PaceKind(outcome)
       IN  /\ now' = now + PaceDelays(kind)[i]
           /\ last' = [outcome |-> outcome, pace |-> kind, delay |-> PaceDelays(kind)[i]]
    /\ NextTarget
    /\ UNCHANGED <<compareVars, diskVars, mainVars, harvestVars>>
    /\ UNCHANGED <<dry_run, hour_start, waitLeft, gate, userVars, driverCalls, wall>>

\* The targets of a session: the handles "a", "b", "c", ... in ascending order.
TargetList(n) == [i \in 1..n |-> <<96 + i>>]

InitSession ==
    /\ spc = "start"
    /\ dry_run \in BOOLEAN
    /\ index = 0
    /\ now = 0
    /\ hour_start = 0
    /\ hour_unfollow_count = 0
    /\ stats = NoStats
    /\ waitLeft = 0
    /\ gate = NoGate
    /\ outcome = "none"
    /\ cdLeft = 0
    /\ cd = NoPause
    /\ visit = NoVisit
    /\ driverCalls = 0
    /\ wall = [no |-> 0, count |-> 0]
    /\ last = NoLast

\* No session is running.
NoSession == InitSession /\ ~dry_run /\ deviations = 0

----------------------------------------------------------------------------
(* get_following.py: scrape_following and its helpers *)

MAX_SCROLL_ROUNDS == 200
MAX_RETRIES == 2

\* stale_rounds >= 3 ends the scrolling.
StaleLimit == 3

\* COUNT_THRESHOLD = 0.90, in percent.
CountThresholdPercent == 90

\* int(expected_count * COUNT_THRESHOLD): the float product, truncated, is
\* the floor of 9/10 of the count for every count up to 5000.
CountFloor(expected) == (expected * CountThresholdPercent) \div 100

\* A verification that takes an unread count for a count not reached.
IncompleteWhenUnread(expected, count) == expected = 0 \/ count < CountFloor(expected)

\* The count verification of lines 337: `expected_count and scraped_count <
\* int(expected_count * COUNT_THRESHOLD)`.
Incomplete(expected, count) == expected # 0 /\ count < CountFloor(expected)

\* How the list in the modal behaves in one attempt: every scroll moves
\* scrollTop on until `stops` scrolls have been made, and from then on all
\* `size` accounts are in the DOM; before, a proportional part of them is.
Sources ==
    { [stops |-> 0, size |-> 4], [stops |-> 2, size |-> 8], [stops |-> 2, size |-> 9],
      [stops |-> MAX_SCROLL_ROUNDS - StaleLimit, size |-> 9],
      [stops |-> MAX_SCROLL_ROUNDS + 1, size |-> 10] }

NoSource == [stops |-> 0, size |-> 0]

\* arguments[0].scrollTop after r scrolls.
Height(src, r) == IF r < src.stops THEN r ELSE src.stops

\* The accounts in the DOM after r scrolls.
Loaded(src, r) == IF r >= src.stops THEN src.size ELSE (src.size * r) \div src.stops

\* A stale-round counter that no new height resets.
StaleCountNeverReset(new_height, previous, stale) == stale + 1

\* Lines 201-206: an unchanged scrollTop adds to stale_rounds, which can then
\* reach the limit; a changed one resets it.
StaleCount(new_height, previous, stale) ==
    IF new_height = previous THEN stale + 1 ELSE 0

\* What the profile header can show as the Following count (0: not readable).
ExpectedCounts == {0, 10, 11}

\* human_sleep(5.0, 10.0) before a retry, in tenths of a second.
CoolOffDelays == {50, 100}

\* The cooldown the model draws during a harvest: 10.0 minutes.
HarvestCooldownTenths == {100}

\* The next iteration of the attempt loop begins: what the iteration before
\* assigned is assigned anew before it is read.
NextAttempt ==
    /\ attempt' = attempt + 1
    /\ hpc' = "open"
    /\ expected_count' = 0
    /\ source' = NoSource
    /\ round' = 0
    /\ last_height' = -1
    /\ stale_rounds' = 0
    /\ usernames' = <<>>

\* scrape_following has not been called.
NoHarvest ==
    /\ hpc = "idle"
    /\ attempt = 0
    /\ expected_count = 0
    /\ source = NoSource
    /\ round = 0
    /\ last_height = -1
    /\ stale_rounds = 0
    /\ requests = 0
    /\ usernames = <<>>
    /\ best = 0
    /\ located = FALSE
    /\ cooloff = [retries |-> 0, slept |-> 0]
    /\ harvested = [returned |-> FALSE, items |-> <<>>]

\* The harvest runs inside main's try block and ends with it.
Harvesting == mpc = "try" /\ ~args.skip_scrape

\* What a step of the harvest leaves alone.
HarvestFrame ==
    /\ UNCHANGED <<compareVars, diskVars, mainVars>>
    /\ UNCHANGED <<spc, dry_run, index, now, quotaVars, stats, outcome, visit,
                   driverCalls, wall, last>>

\* get_following calls scrape_following: `for attempt in range(1, MAX_RETRIES + 2)`.
ScrapeStart ==
    /\ Harvesting
    /\ hpc = "idle"
    /\ requests' = 0
    /\ hpc' = "open"
    /\ attempt' = 1
    /\ UNCHANGED <<expected_count, source, round, last_height, stale_rounds, usernames, best, located, cooloff, harvested>>
    /\ UNCHANGED <<cdLeft, cd, deviations>>
    /\ HarvestFrame

\* _open_modal (lines 98-105): driver.get(following_url), then the rate-limit
\* check, which starts a cooldown when a phrase is on the page.
OpenModal(limited, tenths) ==
    /\ Harvesting
    /\ hpc = "open"
    /\ requests' = 2
    /\ cooloff' = [cooloff EXCEPT !.slept = 0]
    /\ IF limited
       THEN /\ MayDeviate
            /\ deviations' = deviations - 1
            /\ cdLeft' = CooldownSeconds(tenths)
            /\ cd' = PauseBegun(Detected(cd), tenths)
            /\ hpc' = "opencooldown"
       ELSE /\ hpc' = "count"
            /\ UNCHANGED <<cdLeft, cd, deviations>>
    /\ UNCHANGED <<attempt, expected_count, source, round, last_height, stale_rounds,
                   usernames, best, located, harvested>>
    /\ HarvestFrame

\* The countdown of a cooldown during the harvest, all its rounds.
HarvestCooldown ==
    /\ Harvesting
    /\ hpc \in {"opencooldown", "scrollcooldown"}
    /\ cdLeft > 0
    /\ requests' = 0
    /\ cdLeft' = 0
    /\ cd' = PauseChunks(cd, cdLeft)
    /\ UNCHANGED <<hpc, attempt, expected_count, source, round, last_height, stale_rounds,
                   usernames, best, located, cooloff, harvested, deviations>>
    /\ HarvestFrame

\* After the cooldown of _open_modal (lines 104-105): the page is loaded again.
ReopenModal ==
    /\ Harvesting
    /\ hpc = "opencooldown"
    /\ cdLeft = 0
    /\ cd' = PauseReturned(cd)
    /\ requests' = 1
    /\ hpc' = "count"
    /\ UNCHANGED <<attempt, expected_count, source, round, last_height, stale_rounds,
                   usernames, best, located, cooloff, harvested>>
    /\ UNCHANGED <<cdLeft, deviations>>
    /\ HarvestFrame

\* expected_count = _read_expected_count(driver)
ReadExpectedCount(n) ==
    /\ Harvesting
    /\ hpc = "count"
    /\ expected_count' = n
    /\ requests' = 1
    /\ hpc' = "modal"
    /\ UNCHANGED <<attempt, source, round, last_height, stale_rounds, usernames, best,
                   located, cooloff, harvested>>
    /\ UNCHANGED <<cdLeft, cd, deviations>>
    /\ HarvestFrame

\* modal = _get_modal(driver) (lines 300-304): with no modal the attempt is
\* skipped by `continue`; after the last attempt the loop is over and
\* scrape_following returns [] (line 353).
GetModal(found, src) ==
    /\ Harvesting
    /\ hpc = "modal"
    /\ requests' = 1
    /\ IF found
       THEN /\ source' = src
            /\ located' = TRUE
            /\ round' = 0
            /\ last_height' = -1
            /\ stale_rounds' = 0
            /\ hpc' = "scroll"
            /\ UNCHANGED <<attempt, expected_count, usernames, harvested>>
       ELSE /\ src = NoSource
            /\ IF attempt < MAX_RETRIES + 1
               THEN NextAttempt /\ UNCHANGED harvested
               ELSE /\ harvested' = [returned |-> TRUE, items |-> <<>>]
                    /\ hpc' = "returned"
                    /\ UNCHANGED <<attempt, expected_count, source, round, last_height,
                                   stale_rounds, usernames>>
            /\ UNCHANGED located
    /\ UNCHANGED <<best, cooloff>>
    /\ UNCHANGED <<cdLeft, cd, deviations>>
    /\ HarvestFrame

\* One round of _scroll_modal_to_end (lines 182-211): scroll, sleep, read
\* scrollTop. A stale modal is located again and the round ends there, or is
\* not found and the loop ends. Otherwise an unchanged scrollTop counts as a
\* stale round, the third of which ends the loop; then the rate-limit check.
ScrollRound(kind, limited, tenths) ==
    /\ Harvesting
    /\ hpc = "scroll"
    /\ round < MAX_SCROLL_ROUNDS
    /\ round' = round + 1
    /\ requests' = 1
    /\ LET new_height == Height(source, round + 1)
           stale      == StaleCount(new_height, last_height, stale_rounds)
       IN  IF kind # "read"
           THEN /\ MayDeviate
                /\ ~limited
                /\ deviations' = deviations - 1
                /\ hpc' = IF kind = "relocated" THEN "scroll" ELSE "extract"
                /\ UNCHANGED <<last_height, stale_rounds, cdLeft, cd>>
           ELSE IF stale >= StaleLimit
           THEN /\ ~limited
                /\ stale_rounds' = stale
                /\ hpc' = "extract"
                /\ UNCHANGED <<last_height, cdLeft, cd, deviations>>
           ELSE /\ stale_rounds' = stale
                /\ last_height' = new_height
                /\ IF limited
                   THEN /\ MayDeviate
                        /\ deviations' = deviations - 1
                        /\ cdLeft' = CooldownSeconds(tenths)
                        /\ cd' = PauseBegun(Detected(cd), tenths)
                        /\ hpc' = "scrollcooldown"
                   ELSE /\ hpc' = "scroll"
                        /\ UNCHANGED <<cdLeft, cd, deviations>>
    /\ UNCHANGED <<attempt, expected_count, source, usernames, best, located, cooloff,
                   harvested>>
    /\ HarvestFrame

\* auto_pause_after_rate_limit returns into the scroll loop (line 211).
ScrollResume ==
    /\ Harvesting
    /\ hpc = "scrollcooldown"
    /\ requests' = 0
    /\ cdLeft = 0
    /\ cd' = PauseReturned(cd)
    /\ hpc' = "scroll"
    /\ UNCHANGED <<attempt, expected_count, source, round, last_height, stale_rounds,
                   usernames, best, located, cooloff, harvested>>
    /\ UNCHANGED <<cdLeft, deviations>>
    /\ HarvestFrame

\* `for _ in range(MAX_SCROLL_ROUNDS)` has run out.
ScrollExhausted ==
    /\ Harvesting
    /\ hpc = "scroll"
    /\ requests' = 0
    /\ round = MAX_SCROLL_ROUNDS
    /\ hpc' = "extract"
    /\ UNCHANGED <<attempt, expected_count, source, round, last_height, stale_rounds,
                   usernames, best, located, cooloff, harvested>>
    /\ UNCHANGED <<cdLeft, cd, deviations>>
    /\ HarvestFrame

\* following = _extract_usernames(driver) (lines 331-333): the accounts in the
\* DOM, or nothing when both strategies raise.
ExtractUsernames(ok) ==
    /\ Harvesting
    /\ hpc = "extract"
    /\ (ok \/ MayDeviate)
    /\ deviations' = deviations - (IF ok THEN 0 ELSE 1)
    /\ usernames' = IF ok THEN TargetList(Loaded(source, round)) ELSE <<>>
    /\ best' = Max(best, Len(usernames'))
    /\ requests' = 1
    /\ hpc' = "verify"
    /\ UNCHANGED <<attempt, expected_count, source, round, last_height, stale_rounds,
                   located, cooloff, harvested>>
    /\ UNCHANGED <<cdLeft, cd>>
    /\ HarvestFrame

\* Lines 337-345: the count is too low and a retry is left: sleep 5-10 s and
\* start the next attempt.
RetryAfterCoolOff(delay) ==
    /\ Harvesting
    /\ hpc = "verify"
    /\ requests' = 0
    /\ Incomplete(expected_count, Len(usernames))
    /\ attempt <= MAX_RETRIES
    /\ cooloff' = [retries |-> cooloff.retries + 1, slept |-> delay]
    /\ NextAttempt
    /\ UNCHANGED <<best, located, harvested>>
    /\ UNCHANGED <<cdLeft, cd, deviations>>
    /\ HarvestFrame

\* Lines 346-351: the count passed, or no retry is left: return following.
ReturnFollowing ==
    /\ Harvesting
    /\ hpc = "verify"
    /\ requests' = 0
    /\ (Incomplete(expected_count, Len(usernames)) => attempt > MAX_RETRIES)
    /\ harvested' = [returned |-> TRUE, items |-> usernames]
    /\ hpc' = "returned"
    /\ UNCHANGED <<attempt, expected_count, source, round, last_height, stale_rounds,
                   usernames, best, located, cooloff>>
    /\ UNCHANGED <<cdLeft, cd, deviations>>
    /\ HarvestFrame

\* get_following (lines 374-376): save_following(following); return following.
SaveFollowing ==
    /\ Harvesting
    /\ hpc = "returned"
    /\ requests' = 0
    /\ followingArg' = Arg(harvested.items)
    /\ followingFile' = ListFile(harvested.items)
    /\ mpc' = "scraped"
    /\ hpc' = "saved"
    /\ UNCHANGED <<attempt, expected_count, source, round, last_height, stale_rounds,
                   usernames, best, located, cooloff, harvested>>
    /\ UNCHANGED <<args, targets, answer, sessionCalls, unfollowCalls, quitCalls>>
    /\ UNCHANGED <<followersArg, result, calls, prev>>
    /\ UNCHANGED <<whitelistFile, followersFile, outputFile, sessionVars>>

----------------------------------------------------------------------------
(* A harness for compare(): it builds the arguments and the files, then     *)
(* calls compare() on them, possibly several times.                        *)

TotalEntries ==
    Len(followingArg.items) + Len(followersArg.items)
        + Len(whitelistFile.items) + Len(followersFile.items)

Building == calls = 0 /\ TotalEntries < MaxEntries

AddFollowing(h) ==
    /\ Building
    /\ followingArg' = Arg(Append(followingArg.items, h))
    /\ UNCHANGED <<sessionVars, harvestVars, mainVars, followersArg, result, calls, prev, diskVars>>

AddFollower(h) ==
    /\ Building
    /\ followersArg' = Arg(Append(followersArg.items, h))
    /\ UNCHANGED <<sessionVars, harvestVars, mainVars, followingArg, result, calls, prev, diskVars>>

\* compare(following, followers=[]): an argument that is given, and empty.
GiveFollowers ==
    /\ calls = 0
    /\ ~followersArg.given
    /\ followersArg' = Arg(<<>>)
    /\ UNCHANGED <<sessionVars, harvestVars, mainVars, followingArg, result, calls, prev, diskVars>>

AddWhitelist(h) ==
    /\ Building
    /\ whitelistFile.kind \in {"missing", "list", "dict"}
    /\ whitelistFile' =
          [kind  |-> IF whitelistFile.kind = "missing" THEN "list" ELSE whitelistFile.kind,
           items |-> Append(whitelistFile.items, h)]
    /\ UNCHANGED <<sessionVars, harvestVars, mainVars, compareVars, followersFile, followingFile, outputFile>>

\* config/whitelist.json in its {"whitelist": [...]} form.
WrapWhitelist ==
    /\ calls = 0
    /\ whitelistFile.kind = "list"
    /\ whitelistFile' = [whitelistFile EXCEPT !.kind = "dict"]
    /\ UNCHANGED <<sessionVars, harvestVars, mainVars, compareVars, followersFile, followingFile, outputFile>>

\* A whitelist file that is not valid JSON.
CorruptWhitelist ==
    /\ calls = 0
    /\ whitelistFile.kind = "missing"
    /\ whitelistFile' = [kind |-> "invalid", items |-> <<>>]
    /\ UNCHANGED <<sessionVars, harvestVars, mainVars, compareVars, followersFile, followingFile, outputFile>>

\* data/followers.json left on disk by an earlier get_followers() run.
AddFollowersFile(h) ==
    /\ Building
    /\ followersFile' = ListFile(Append(followersFile.items, h))
    /\ UNCHANGED <<sessionVars, harvestVars, mainVars, compareVars, whitelistFile, followingFile, outputFile>>

\* A compare() that gives up when the whitelist cannot be loaded.
CallCompareNeedingWhitelist ==
    /\ calls < MaxCalls
    /\ followingArg.given
    /\ IF whitelistFile.kind \in {"list", "dict"}
       THEN LET r == compare(followingArg, followersArg, followingFile, followersFile,
                             whitelistFile)
            IN  /\ outputFile' = ListFile(r)
                /\ result' = [returned |-> TRUE, items |-> r]
       ELSE UNCHANGED <<outputFile, result>>
    /\ prev' = [result |-> result, output |-> outputFile]
    /\ calls' = calls + 1
    /\ UNCHANGED <<sessionVars, harvestVars, mainVars, followingArg, followersArg, whitelistFile, followersFile,
                   followingFile>>

\* One call compare(following, followers): compute, persist, return.
CallCompare ==
    /\ calls < MaxCalls
    /\ followingArg.given
    /\ LET r == compare(followingArg, followersArg, followingFile, followersFile,
                        whitelistFile)
       IN  /\ outputFile' = ListFile(r)
           /\ result' = [returned |-> TRUE, items |-> r]
    /\ prev' = [result |-> result, output |-> outputFile]
    /\ calls' = calls + 1
    /\ UNCHANGED <<sessionVars, harvestVars, mainVars, followingArg, followersArg, whitelistFile, followersFile,
                   followingFile>>

InitCompare ==
    /\ followingArg = Arg(<<>>)
    /\ followersArg = NoArg
    /\ whitelistFile = MissingFile
    /\ followersFile = MissingFile
    /\ followingFile = MissingFile
    /\ outputFile = MissingFile
    /\ result = [returned |-> FALSE, items |-> <<>>]
    /\ calls = 0
    /\ prev = [result |-> [returned |-> FALSE, items |-> <<>>], output |-> MissingFile]

InitMain ==
    /\ mpc = "idle"
    /\ args = [dry_run |-> FALSE, skip_scrape |-> FALSE]
    /\ targets = <<>>
    /\ answer = [kind |-> "none", text |-> <<>>]
    /\ sessionCalls = 0
    /\ unfollowCalls = <<>>
    /\ quitCalls = 0

NextCompare ==
    \/ \E h \in Handles : AddFollowing(h)
    \/ \E h \in Handles : AddFollower(h)
    \/ \E h \in Handles : AddWhitelist(h)
    \/ \E h \in Handles : AddFollowersFile(h)
    \/ GiveFollowers
    \/ WrapWhitelist
    \/ CorruptWhitelist
    \/ CallCompare

InitCompareHarness == InitCompare /\ InitMain /\ NoSession /\ NoHarvest

SpecCompare == InitCompareHarness /\ [][NextCompare]_vars

----------------------------------------------------------------------------
(* main.py *)

NoAnswer       == [kind |-> "none", text |-> <<>>]
TextAnswer(t)  == [kind |-> "text", text |-> t]

\* What the user can do at "Proceed to unfollow? (y/n): ": type "y", "Y",
\* " y ", "n", "yes" or nothing and press return (121 = y, 89 = Y, 110 = n,
\* 101 = e, 115 = s), close stdin (EOFError) or press Ctrl+C.
Answers ==
    { TextAnswer(t) : t \in { <<121>>, <<89>>, <<32, 121, 32>>, <<110>>,
                              <<121, 101, 115>>, <<>> } }
        \cup { [kind |-> "eof", text |-> <<>>], [kind |-> "interrupt", text |-> <<>>] }

\* ask_user_to_proceed with the test loosened to answer.startswith("y").
ask_user_to_proceedPrefix(a) ==
    /\ a.kind = "text"
    /\ Lower(Strip(a.text)) # <<>>
    /\ Head(Lower(Strip(a.text))) = 121

\* ask_user_to_proceed: input(...).strip().lower() == "y"; EOFError and
\* KeyboardInterrupt at the prompt give False.
ask_user_to_proceed(a) ==
    /\ a.kind = "text"
    /\ Lower(Strip(a.text)) = <<121>>

\* What one scrape can return: _extract_usernames keeps a `seen` set, so the
\* list holds no raw duplicate and no empty name.
RECURSIVE ListsUpTo(_, _)
ListsUpTo(S, n) ==
    IF n = 0 THEN { <<>> }
    ELSE LET shorter == ListsUpTo(S, n - 1)
         IN  shorter \cup { Append(l, h) : l \in shorter, h \in S }

NoDuplicates(l) == \A i, j \in 1..Len(l) : i # j => l[i] # l[j]

ScrapeResults ==
    { l \in ListsUpTo({h \in Handles : Truthy(h)}, MaxScrape) : NoDuplicates(l) }

\* The user edits config/whitelist.json while the bot is not running.
EditWhitelist(h) ==
    /\ mpc = "idle"
    /\ Len(whitelistFile.items) < MaxWhitelist
    /\ whitelistFile' = ListFile(Append(whitelistFile.items, h))
    /\ UNCHANGED <<compareVars, mainVars, sessionVars, harvestVars, followersFile, followingFile, outputFile>>

\* python3 main.py [--dry-run] [--skip-scrape]: credentials load, login returns
\* a driver, and main sleeps long_pause(5.0, 10.0) (lines 133-151).
MainStart(dry, skip) ==
    /\ mpc = "idle"
    /\ mpc' = "settle"
    /\ args' = [dry_run |-> dry, skip_scrape |-> skip]
    /\ UNCHANGED <<targets, answer, sessionCalls, unfollowCalls, quitCalls>>
    /\ UNCHANGED <<compareVars, diskVars, sessionVars, harvestVars>>

\* The pause is over: main enters its try block (line 153).
MainSettled ==
    /\ mpc = "settle"
    /\ mpc' = "try"
    /\ UNCHANGED <<args, targets, answer, sessionCalls, unfollowCalls, quitCalls>>
    /\ UNCHANGED <<compareVars, diskVars, sessionVars, harvestVars>>

\* Ctrl+C during that pause: the KeyboardInterrupt is raised outside the try
\* statement, so neither its handler nor its finally block runs and the
\* process ends with the traceback.
MainInterruptSettling ==
    /\ mpc = "settle"
    /\ mpc' = "exited"
    /\ UNCHANGED <<args, targets, answer, sessionCalls, unfollowCalls, quitCalls>>
    /\ UNCHANGED <<compareVars, diskVars, sessionVars, harvestVars>>

\* --skip-scrape: targets = load_existing_targets(); a missing file is
\* sys.exit(1), which unwinds through the finally block.
load_existing_targets ==
    /\ mpc = "try"
    /\ args.skip_scrape
    /\ IF outputFile.kind = "missing"
       THEN mpc' = "finally" /\ UNCHANGED targets
       ELSE mpc' = "preview" /\ targets' = outputFile.items
    /\ UNCHANGED <<args, answer, sessionCalls, unfollowCalls, quitCalls>>
    /\ UNCHANGED <<compareVars, diskVars, sessionVars, harvestVars>>

\* following = get_following(driver, username): scrape, then save_following.
get_following(scraped) ==
    /\ mpc = "try"
    /\ ~args.skip_scrape
    /\ followingArg' = Arg(scraped)
    /\ followingFile' = ListFile(scraped)
    /\ mpc' = "scraped"
    /\ UNCHANGED <<args, targets, answer, sessionCalls, unfollowCalls, quitCalls>>
    /\ UNCHANGED <<followersArg, result, calls, prev>>
    /\ UNCHANGED <<whitelistFile, followersFile, outputFile, sessionVars, harvestVars>>

\* targets = compare(following=following)
\* A compare() that returns its list without writing it.
MainCompareUnsaved ==
    /\ mpc = "scraped"
    /\ LET r == compare(followingArg, NoArg, followingFile, followersFile, whitelistFile)
       IN  /\ result' = [returned |-> TRUE, items |-> r]
           /\ targets' = r
    /\ mpc' = "preview"
    /\ UNCHANGED <<args, answer, sessionCalls, unfollowCalls, quitCalls>>
    /\ UNCHANGED <<followingArg, followersArg, calls, prev>>
    /\ UNCHANGED <<diskVars, sessionVars, harvestVars>>

MainCompare ==
    /\ mpc = "scraped"
    /\ LET r == compare(followingArg, NoArg, followingFile, followersFile, whitelistFile)
       IN  /\ outputFile' = ListFile(r)
           /\ result' = [returned |-> TRUE, items |-> r]
           /\ targets' = r
    /\ mpc' = "preview"
    /\ UNCHANGED <<args, answer, sessionCalls, unfollowCalls, quitCalls>>
    /\ UNCHANGED <<followingArg, followersArg, calls, prev>>
    /\ UNCHANGED <<whitelistFile, followersFile, followingFile, sessionVars, harvestVars>>

\* show_preview(targets); `if not targets: return`.
MainNothingToDo ==
    /\ mpc = "preview"
    /\ targets = <<>>
    /\ mpc' = "finally"
    /\ UNCHANGED <<args, targets, answer, sessionCalls, unfollowCalls, quitCalls>>
    /\ UNCHANGED <<compareVars, diskVars, sessionVars, harvestVars>>

\* Without --dry-run: proceed = ask_user_to_proceed(targets); return unless it
\* is True.
MainAsk(a) ==
    /\ mpc = "preview"
    /\ targets # <<>>
    /\ ~args.dry_run
    /\ answer' = a
    /\ mpc' = IF ask_user_to_proceed(a) THEN "session" ELSE "finally"
    /\ UNCHANGED <<args, targets, sessionCalls, unfollowCalls, quitCalls>>
    /\ UNCHANGED <<compareVars, diskVars, sessionVars, harvestVars>>

\* With --dry-run: proceed = True, no prompt.
MainDryRunProceeds ==
    /\ mpc = "preview"
    /\ targets # <<>>
    /\ args.dry_run
    /\ mpc' = "session"
    /\ UNCHANGED <<args, targets, answer, sessionCalls, unfollowCalls, quitCalls>>
    /\ UNCHANGED <<compareVars, diskVars, sessionVars, harvestVars>>

\* stats = run_unfollow_session(driver, targets, dry_run=args.dry_run): in a
\* live run the loop passes the targets to unfollow_user one by one, in order;
\* Ctrl+C ends it after `visited` of them. A dry run calls unfollow_user for none.
MainRunSession(visited) ==
    /\ mpc = "session"
    /\ sessionCalls' = sessionCalls + 1
    /\ unfollowCalls' = IF args.dry_run THEN <<>> ELSE SubSeq(targets, 1, visited)
    /\ mpc' = "finally"
    /\ UNCHANGED <<args, targets, answer, quitCalls>>
    /\ UNCHANGED <<compareVars, diskVars, sessionVars, harvestVars>>

\* Ctrl+C outside the prompt: KeyboardInterrupt unwinds to main's handler.
MainInterrupt ==
    /\ mpc \in {"try", "scraped", "preview", "session"}
    /\ mpc' = "finally"
    /\ UNCHANGED <<args, targets, answer, sessionCalls, unfollowCalls, quitCalls>>
    /\ UNCHANGED <<compareVars, diskVars, sessionVars, harvestVars>>

\* A finally block that leaves the browser open.
MainFinallyKeepsBrowser ==
    /\ mpc = "finally"
    /\ mpc' = "exited"
    /\ UNCHANGED <<args, targets, answer, sessionCalls, unfollowCalls, quitCalls>>
    /\ UNCHANGED <<compareVars, diskVars, sessionVars, harvestVars>>

\* finally: driver.quit()
MainFinally ==
    /\ mpc = "finally"
    /\ quitCalls' = quitCalls + 1
    /\ mpc' = "exited"
    /\ UNCHANGED <<args, targets, answer, sessionCalls, unfollowCalls>>
    /\ UNCHANGED <<compareVars, diskVars, sessionVars, harvestVars>>

\* The process is gone: nothing of the run is left but the files on disk.
MainExit ==
    /\ mpc = "exited"
    /\ mpc' = "idle"
    /\ args' = [dry_run |-> FALSE, skip_scrape |-> FALSE]
    /\ targets' = <<>>
    /\ answer' = NoAnswer
    /\ sessionCalls' = 0
    /\ unfollowCalls' = <<>>
    /\ quitCalls' = 0
    /\ followingArg' = Arg(<<>>)
    /\ result' = [returned |-> FALSE, items |-> <<>>]
    /\ UNCHANGED <<followersArg, calls, prev, diskVars, sessionVars, harvestVars>>

InitMainRuns == InitCompare /\ InitMain /\ NoSession /\ NoHarvest

NextMain ==
    \/ \E h \in Handles : EditWhitelist(h)
    \/ \E dry, skip \in BOOLEAN : MainStart(dry, skip)
    \/ MainSettled
    \/ MainInterruptSettling
    \/ load_existing_targets
    \/ \E scraped \in ScrapeResults : get_following(scraped)
    \/ MainCompare
    \/ MainNothingToDo
    \/ \E a \in Answers : MainAsk(a)
    \/ MainDryRunProceeds
    \/ \E visited \in 0..Len(targets) : MainRunSession(visited)
    \/ MainInterrupt
    \/ MainFinally
    \/ MainExit

SpecMain == InitMainRuns /\ [][NextMain]_vars

----------------------------------------------------------------------------
(* What the harvest and the session read off the page: the links in the    *)
(* dialog (_extract_usernames) and the text of the page                    *)
(* (check_for_rate_limit). In this harness `source` is the page,           *)
(* [hrefs, page, readable]; `usernames` is what _extract_usernames         *)
(* returned and cd.detections counts the checks that returned True.        *)

\* "https://www.instagram.com"
InstagramOrigin ==
    <<104, 116, 116, 112, 115, 58, 47, 47, 119, 119, 119, 46, 105, 110, 115, 116, 97, 103, 114, 97, 109, 46, 99, 111, 109>>

\* The names that are paths of the site, not accounts (lines 241, 258).
ReservedPaths ==
    { <<101, 120, 112, 108, 111, 114, 101>>,
      <<97, 99, 99, 111, 117, 110, 116, 115>>,
      <<112>>,
      <<114, 101, 101, 108, 115>>,
      <<115, 116, 111, 114, 105, 101, 115>> }

\* RATE_LIMIT_PHRASES (helpers.py, lines 44-52).
RATE_LIMIT_PHRASES ==
    << <<84, 114, 121, 32, 65, 103, 97, 105, 110, 32, 76, 97, 116, 101, 114>>,
       <<65, 99, 116, 105, 111, 110, 32, 66, 108, 111, 99, 107, 101, 100>>,
       <<80, 108, 101, 97, 115, 101, 32, 87, 97, 105, 116>>,
       <<80, 114, 111, 116, 101, 99, 116, 105, 110, 103, 32, 111, 117, 114, 32, 99, 111, 109, 109, 117, 110, 105, 116, 121>>,
       <<87, 101, 32, 114, 101, 115, 116, 114, 105, 99, 116, 32, 99, 101, 114, 116, 97, 105, 110, 32, 97, 99, 116, 105, 118, 105, 116, 121>>,
       <<80, 108, 101, 97, 115, 101, 32, 83, 108, 111, 119, 32, 68, 111, 119, 110>>,
       <<83, 111, 109, 101, 116, 104, 105, 110, 103, 32, 119, 101, 110, 116, 32, 119, 114, 111, 110, 103>> >>

\* s.startswith(p)
StartsWith(s, p) == Len(s) >= Len(p) /\ SubSeq(s, 1, Len(p)) = p

\* s.replace(p, ""), for a non-empty p
RECURSIVE Removed(_, _)
Removed(s, p) ==
    IF Len(s) < Len(p) THEN s
    ELSE IF StartsWith(s, p) THEN Removed(SubSeq(s, Len(p) + 1, Len(s)), p)
    ELSE <<Head(s)>> \o Removed(Tail(s), p)

\* [p for p in s.split("/") if p], the part being read held in `part`
RECURSIVE PathParts(_, _)
PathParts(s, part) ==
    IF s = <<>> THEN (IF part = <<>> THEN <<>> ELSE <<part>>)
    ELSE IF Head(s) = 47
    THEN (IF part = <<>> THEN <<>> ELSE <<part>>) \o PathParts(Tail(s), <<>>)
    ELSE PathParts(Tail(s), Append(part, Head(s)))

\* p in s
RECURSIVE Contains(_, _)
Contains(s, p) ==
    IF Len(s) < Len(p) THEN FALSE
    ELSE StartsWith(s, p) \/ Contains(Tail(s), p)

\* The loop over the hrefs (lines 237-243, and 253-260 in the fallback): a
\* link whose path has one part, which is not reserved and not in `seen`, adds
\* that part to the list.
RECURSIVE ExtractLoop(_, _)
ExtractLoop(hrefs, kept) ==
    IF hrefs = <<>> THEN kept
    ELSE LET parts == PathParts(Removed(Head(hrefs), InstagramOrigin), <<>>)
             seen  == { kept[i] : i \in 1..Len(kept) }
             keep  == /\ Len(parts) = 1
                      /\ parts[1] \notin ReservedPaths
                      /\ parts[1] \notin seen
         IN  ExtractLoop(Tail(hrefs), IF keep THEN Append(kept, parts[1]) ELSE kept)

\* _extract_usernames: the JS strategy, then the XPath strategy when the
\* first gave nothing; a strategy that raises gives nothing.
extract_usernames(hrefs, js, xpath) ==
    LET first == IF js THEN ExtractLoop(hrefs, <<>>) ELSE <<>>
    IN  IF first # <<>> THEN first
        ELSE IF xpath THEN ExtractLoop(hrefs, <<>>) ELSE <<>>

\* A check that looks for the phrases as they are spelt.
check_for_rate_limitExact(page, readable) ==
    /\ readable
    /\ \E k \in 1..Len(RATE_LIMIT_PHRASES) : Contains(page, RATE_LIMIT_PHRASES[k])

\* check_for_rate_limit (lines 55-69): True when the lower-cased page holds a
\* lower-cased phrase; False when driver.page_source raises.
check_for_rate_limit(page, readable) ==
    /\ readable
    /\ \E k \in 1..Len(RATE_LIMIT_PHRASES) :
          Contains(Lower(page), Lower(RATE_LIMIT_PHRASES[k]))

\* The links a dialog can hold and the pieces a page can be made of.
MaxLinks == 3
MaxFragments == 2

\* the profile of a, the same profile, spelt A, the profile of b, a reserved path, a path of two parts, a relative link.
DialogHrefs ==
    { <<104, 116, 116, 112, 115, 58, 47, 47, 119, 119, 119, 46, 105, 110, 115, 116, 97, 103, 114, 97, 109, 46, 99, 111, 109, 47, 97, 47>>,
      <<104, 116, 116, 112, 115, 58, 47, 47, 119, 119, 119, 46, 105, 110, 115, 116, 97, 103, 114, 97, 109, 46, 99, 111, 109, 47, 65, 47>>,
      <<104, 116, 116, 112, 115, 58, 47, 47, 119, 119, 119, 46, 105, 110, 115, 116, 97, 103, 114, 97, 109, 46, 99, 111, 109, 47, 98, 47>>,
      <<104, 116, 116, 112, 115, 58, 47, 47, 119, 119, 119, 46, 105, 110, 115, 116, 97, 103, 114, 97, 109, 46, 99, 111, 109, 47, 112, 47>>,
      <<104, 116, 116, 112, 115, 58, 47, 47, 119, 119, 119, 46, 105, 110, 115, 116, 97, 103, 114, 97, 109, 46, 99, 111, 109, 47, 97, 47, 98, 47>>,
      <<47, 97, 47>> }

\* a phrase as listed, a phrase in another case, the beginning of a phrase, the end of a phrase, markup with no phrase.
PageFragments ==
    { <<84, 114, 121, 32, 65, 103, 97, 105, 110, 32, 76, 97, 116, 101, 114>>,
      <<112, 108, 101, 97, 115, 101, 32, 87, 65, 73, 84>>,
      <<84, 114, 121, 32, 97, 103, 97, 105, 110, 32>>,
      <<108, 97, 116, 101, 114>>,
      <<60, 112, 62, 111, 107, 60, 47, 112, 62>> }

RECURSIVE Joined(_)
Joined(l) == IF l = <<>> THEN <<>> ELSE Head(l) \o Joined(Tail(l))

Pages == { Joined(l) : l \in ListsUpTo(PageFragments, MaxFragments) }

\* The browser shows a dialog with some links, or a page with some text that
\* can or cannot be read: the harness has not looked at it yet.
InitPage ==
    /\ InitCompare
    /\ InitMain
    /\ NoSession
    /\ hpc = "page"
    /\ \/ source \in [hrefs : ListsUpTo(DialogHrefs, MaxLinks), page : {<<>>},
                       readable : {TRUE}]
       \/ source \in [hrefs : {<<>>}, page : Pages, readable : BOOLEAN]
    /\ attempt = 0
    /\ expected_count = 0
    /\ round = 0
    /\ last_height = -1
    /\ stale_rounds = 0
    /\ requests = 0
    /\ usernames = <<>>
    /\ best = 0
    /\ located = FALSE
    /\ cooloff = [retries |-> 0, slept |-> 0]
    /\ harvested = [returned |-> FALSE, items |-> <<>>]

\* usernames = _extract_usernames(driver)
ExtractFromPage(js, xpath) ==
    /\ hpc = "page"
    /\ hpc' = "extracted"
    /\ usernames' = extract_usernames(source.hrefs, js, xpath)
    /\ UNCHANGED <<attempt, expected_count, source, round, last_height, stale_rounds,
                   requests, best, located, cooloff, harvested>>
    /\ UNCHANGED <<compareVars, diskVars, mainVars, sessionVars>>

\* check_for_rate_limit(driver); a True result is counted in cd.detections.
CheckPage ==
    /\ hpc = "page"
    /\ hpc' = "checked"
    /\ cd' = IF check_for_rate_limit(source.page, source.readable)
             THEN Detected(cd) ELSE cd
    /\ UNCHANGED <<attempt, expected_count, source, round, last_height, stale_rounds,
                   requests, usernames, best, located, cooloff, harvested>>
    /\ UNCHANGED <<compareVars, diskVars, mainVars>>
    /\ UNCHANGED <<spc, dry_run, index, now, quotaVars, stats, outcome, cdLeft, visit,
                   driverCalls, wall, last, deviations>>

NextPage ==
    \/ \E js, xpath \in BOOLEAN : ExtractFromPage(js, xpath)
    \/ CheckPage

SpecPage == InitPage /\ [][NextPage]_vars

----------------------------------------------------------------------------
(* src/unfollow.py, the Web API edition: its own main(), which reads the   *)
(* same config/whitelist.json and writes the same data/following.json. A   *)
(* followed account is modelled by its username; unfollowCalls lists the   *)
(* accounts a friendships/destroy request was sent for.                    *)

\* load_whitelist: the normalized entries of the file; the empty set when the
\* file is missing or cannot be read.
load_whitelist(file) ==
    IF file.kind \in {"list", "dict"} THEN NormSet(file.items) ELSE {}

\* A filter that compares the username as fetched.
ApiTargetsRaw(following, whitelist) ==
    SelectSeq(following, LAMBDA u : u \notin whitelist)

\* Lines 274-277: [u for u in following
\*                 if u.get("username", "").lower().strip() not in whitelist]
ApiTargets(following, whitelist) ==
    SelectSeq(following, LAMBDA u : Strip(Lower(u)) \notin whitelist)

\* A confirmation that any answer beginning with y passes.
ApiConfirmedByY(a) ==
    /\ a.kind = "text"
    /\ Strip(a.text) # <<>>
    /\ Lower(Strip(a.text))[1] = 121

\* Lines 298-299: input("Type 'yes' to confirm: ").strip().lower() == "yes".
\* input() raises on EOF and on Ctrl+C, which ends the process.
ApiConfirmed(a) ==
    /\ a.kind = "text"
    /\ Lower(Strip(a.text)) = <<121, 101, 115>>

\* python unfollow.py [--dry-run], up to the prompt (lines 195-295): the
\* whitelist is loaded, the following list is fetched and saved, the targets
\* are filtered; with no target, or with --dry-run, main returns here.
ApiMain(dry, fetched) ==
    /\ mpc = "idle"
    /\ args' = [dry_run |-> dry, skip_scrape |-> FALSE]
    /\ followingArg' = Arg(fetched)
    /\ followingFile' = ListFile(fetched)
    /\ targets' = ApiTargets(fetched, load_whitelist(whitelistFile))
    /\ mpc' = IF targets' = <<>> \/ dry THEN "exited" ELSE "confirm"
    /\ UNCHANGED <<answer, sessionCalls, unfollowCalls, quitCalls>>
    /\ UNCHANGED <<followersArg, result, calls, prev>>
    /\ UNCHANGED <<whitelistFile, followersFile, outputFile, sessionVars, harvestVars>>

\* Lines 297-301: the prompt; any answer but yes ends the run.
ApiConfirm(a) ==
    /\ mpc = "confirm"
    /\ answer' = a
    /\ mpc' = IF ApiConfirmed(a) THEN "destroy" ELSE "exited"
    /\ UNCHANGED <<args, targets, sessionCalls, unfollowCalls, quitCalls>>
    /\ UNCHANGED <<compareVars, diskVars, sessionVars, harvestVars>>

\* Lines 306-319: one round of the loop: the friendships/destroy request for
\* the next target, whatever its answer, and the pause; after the last
\* target main returns.
ApiUnfollow ==
    /\ mpc = "destroy"
    /\ unfollowCalls' = Append(unfollowCalls, targets[Len(unfollowCalls) + 1])
    /\ mpc' = IF Len(unfollowCalls') = Len(targets) THEN "exited" ELSE "destroy"
    /\ UNCHANGED <<args, targets, answer, sessionCalls, quitCalls>>
    /\ UNCHANGED <<compareVars, diskVars, sessionVars, harvestVars>>

NextApi ==
    \/ \E h \in Handles : EditWhitelist(h)
    \/ \E dry \in BOOLEAN, fetched \in ScrapeResults : ApiMain(dry, fetched)
    \/ \E a \in Answers \cup {TextAnswer(<<32, 89, 69, 115>>)} : ApiConfirm(a)
    \/ ApiUnfollow
    \/ MainExit

SpecApi == InitMainRuns /\ [][NextApi]_vars

\* get_following of the Web API edition (lines 103-156), page by page. Here
\* `usernames` is its `following`, `last_height` its `max_id` (0: None or any
\* falsy cursor), `round` its `page`, and hpc is "page" while the loop runs,
\* then "returned" or "raised". The list keeps its first MaxFetched users and
\* the page number stops at MaxPages: more of either is not told apart.
MaxCursor  == 3
MaxFetched == 3
MaxPages   == 4

\* What the server can answer to one page request: no answer (a
\* RequestException), a status other than 200, an empty body, a body that
\* resp.json() rejects, or a JSON body with up to two users and a next_max_id,
\* either of which may be missing (users = <<>>, next_max_id = 0).
ApiResponses ==
    { [kind |-> k, users |-> <<>>, next_max_id |-> 0] :
          k \in {"network", "401", "500", "empty", "notjson"} }
        \cup [kind : {"json"}, users : {<<>>, <<<<97>>>>, <<<<98>>>>, <<<<97>>, <<98>>>>},
              next_max_id : 0..MaxCursor]

\* One iteration of `while True` (lines 111-153).
ApiFetchPage(resp) ==
    /\ hpc = "page"
    /\ requests' = 1
    /\ IF resp.kind # "json"
       THEN /\ hpc' = "raised"
            /\ UNCHANGED <<usernames, last_height, round>>
       ELSE /\ usernames' = SubSeq(usernames \o resp.users, 1,
                                   Min(MaxFetched, Len(usernames) + Len(resp.users)))
            /\ IF resp.next_max_id = 0 \/ resp.users = <<>>
               THEN /\ hpc' = "returned"
                    /\ UNCHANGED <<last_height, round>>
               ELSE /\ hpc' = "page"
                    /\ last_height' = resp.next_max_id
                    /\ round' = Min(round + 1, MaxPages)
    /\ UNCHANGED <<attempt, expected_count, source, stale_rounds, best, located, cooloff,
                   harvested>>
    /\ UNCHANGED <<compareVars, diskVars, mainVars, sessionVars>>

\* get_following has been called: following = [], max_id = None, page = 1.
InitApiFetch ==
    /\ InitCompare
    /\ InitMain
    /\ NoSession
    /\ hpc = "page"
    /\ attempt = 0
    /\ expected_count = 0
    /\ source = NoSource
    /\ round = 1
    /\ last_height = 0
    /\ stale_rounds = 0
    /\ requests = 0
    /\ usernames = <<>>
    /\ best = 0
    /\ located = FALSE
    /\ cooloff = [retries |-> 0, slept |-> 0]
    /\ harvested = [returned |-> FALSE, items |-> <<>>]

NextApiFetch == \E resp \in ApiResponses : ApiFetchPage(resp)

\* The loop is never held up between two requests: a request is sent whenever
\* one is due.
SpecApiFetch == InitApiFetch /\ [][NextApiFetch]_vars /\ WF_vars(NextApiFetch)

----------------------------------------------------------------------------
(* run_unfollow_session on its own: a target list, live or as a dry run *)

\* main has called run_unfollow_session(driver, targets, dry_run).
SessionCalled ==
    /\ InitSession
    /\ InitCompare
    /\ NoHarvest
    /\ mpc = "session"
    /\ args = [dry_run |-> dry_run, skip_scrape |-> FALSE]
    /\ answer = NoAnswer
    /\ sessionCalls = 1
    /\ unfollowCalls = <<>>
    /\ quitCalls = 0

\* Short sessions with every departure the model knows, and one long session
\* on the fastest path, which runs into the quota.
InitSessionRun ==
    /\ SessionCalled
    /\ \E n \in {0, 1, MaxTargets, HourTargets} :
          /\ targets = TargetList(n)
          /\ deviations = IF n = HourTargets THEN 0 ELSE MaxDeviations

\* Long sessions with a few departures from the fastest path.
InitHourRun ==
    /\ SessionCalled
    /\ targets = TargetList(HourTargets)
    /\ deviations = HourDeviations

NextSession ==
    \/ SessionStart
    \/ QuotaCheck
    \/ QuotaWaitBlock
    \/ QuotaWaitEnd
    \/ \E i \in 1..Len(DryRunDelays) : DryRunStep(i)
    \/ LoadProfile
    \/ \E tenths \in CooldownTenths : FirstRateCheck(TRUE, tenths)
    \/ FirstRateCheck(FALSE, 0)
    \/ CooldownBlock
    \/ ReloadProfile
    \/ \E class \in {"eligible", "private", "not_following"} : Classify(class)
    \/ \E found \in BOOLEAN : ClickFollowing(found)
    \/ \E found \in BOOLEAN : ConfirmUnfollow(found)
    \/ \E tenths \in CooldownTenths : SecondRateCheck(TRUE, tenths)
    \/ SecondRateCheck(FALSE, 0)
    \/ ReturnUnfollowed
    \/ RaiseInVisit
    \/ \E i \in 1..2 : Account(i)

SpecSession == InitSessionRun /\ [][NextSession]_vars

SpecHour == InitHourRun /\ [][NextSession]_vars

\* Every value round(random.uniform(10, 20), 1) can take, in tenths of a minute.
PauseMinutes == 100..200

\* A short live session.
InitPauseRun ==
    /\ SessionCalled
    /\ ~dry_run
    /\ targets = TargetList(PauseTargets)
    /\ deviations = PauseDeviations

\* The steps of a live session too short to reach the quota, the cooldown
\* drawn from all of PauseMinutes.
NextPause ==
    \/ SessionStart
    \/ QuotaCheck
    \/ LoadProfile
    \/ \E tenths \in PauseMinutes : FirstRateCheck(TRUE, tenths)
    \/ FirstRateCheck(FALSE, 0)
    \/ CooldownBlock
    \/ ReloadProfile
    \/ \E class \in {"eligible", "private", "not_following"} : Classify(class)
    \/ \E found \in BOOLEAN : ClickFollowing(found)
    \/ \E found \in BOOLEAN : ConfirmUnfollow(found)
    \/ \E tenths \in PauseMinutes : SecondRateCheck(TRUE, tenths)
    \/ SecondRateCheck(FALSE, 0)
    \/ ReturnUnfollowed
    \/ RaiseInVisit
    \/ \E i \in 1..2 : Account(i)

SpecPause == InitPauseRun /\ [][NextPause]_vars

----------------------------------------------------------------------------
(* One full-scrape run of main from the harvest to the preview *)

\* main is in its try block, about to call get_following.
InitHarvestRun ==
    /\ InitCompare
    /\ InitSession
    /\ ~dry_run
    /\ deviations = HarvestDeviations
    /\ NoHarvest
    /\ mpc = "try"
    /\ args = [dry_run |-> FALSE, skip_scrape |-> FALSE]
    /\ targets = <<>>
    /\ answer = NoAnswer
    /\ sessionCalls = 0
    /\ unfollowCalls = <<>>
    /\ quitCalls = 0

NextHarvest ==
    \/ ScrapeStart
    \/ \E tenths \in HarvestCooldownTenths : OpenModal(TRUE, tenths)
    \/ OpenModal(FALSE, 0)
    \/ HarvestCooldown
    \/ ReopenModal
    \/ \E n \in ExpectedCounts : ReadExpectedCount(n)
    \/ \E src \in Sources : GetModal(TRUE, src)
    \/ GetModal(FALSE, NoSource)
    \/ \E kind \in {"read", "relocated", "lost"} : ScrollRound(kind, FALSE, 0)
    \/ \E tenths \in HarvestCooldownTenths : ScrollRound("read", TRUE, tenths)
    \/ ScrollResume
    \/ ScrollExhausted
    \/ \E ok \in BOOLEAN : ExtractUsernames(ok)
    \/ \E delay \in CoolOffDelays : RetryAfterCoolOff(delay)
    \/ ReturnFollowing
    \/ SaveFollowing
    \/ MainCompare
    \/ MainNothingToDo
    \/ MainFinally

SpecHarvest == InitHarvestRun /\ [][NextHarvest]_vars

\* The two callers of auto_pause_after_rate_limit, each in runs of its own:
\* a harvest, or a session of run_unfollow_session.
InitCooldownRun == InitHarvestRun \/ InitSessionRun

NextCooldown ==
    \/ ScrapeStart
    \/ \E tenths \in HarvestCooldownTenths : OpenModal(TRUE, tenths)
    \/ OpenModal(FALSE, 0)
    \/ HarvestCooldown
    \/ ReopenModal
    \/ \E n \in ExpectedCounts : ReadExpectedCount(n)
    \/ \E src \in Sources : GetModal(TRUE, src)
    \/ GetModal(FALSE, NoSource)
    \/ \E kind \in {"read", "relocated", "lost"} : ScrollRound(kind, FALSE, 0)
    \/ \E tenths \in HarvestCooldownTenths : ScrollRound("read", TRUE, tenths)
    \/ ScrollResume
    \/ ScrollExhausted
    \/ \E ok \in BOOLEAN : ExtractUsernames(ok)
    \/ \E delay \in CoolOffDelays : RetryAfterCoolOff(delay)
    \/ ReturnFollowing
    \/ SaveFollowing
    \/ SessionStart
    \/ QuotaCheck
    \/ QuotaWaitBlock
    \/ QuotaWaitEnd
    \/ \E i \in 1..Len(DryRunDelays) : DryRunStep(i)
    \/ LoadProfile
    \/ \E tenths \in CooldownTenths : FirstRateCheck(TRUE, tenths)
    \/ FirstRateCheck(FALSE, 0)
    \/ CooldownBlock
    \/ ReloadProfile
    \/ \E class \in {"eligible", "private", "not_following"} : Classify(class)
    \/ \E found \in BOOLEAN : ClickFollowing(found)
    \/ \E found \in BOOLEAN : ConfirmUnfollow(found)
    \/ \E tenths \in CooldownTenths : SecondRateCheck(TRUE, tenths)
    \/ SecondRateCheck(FALSE, 0)
    \/ ReturnUnfollowed
    \/ RaiseInVisit
    \/ \E i \in 1..2 : Account(i)

SpecCooldown == InitCooldownRun /\ [][NextCooldown]_vars

\* Ctrl+C while scrape_following or run_unfollow_session is running, in a
\* sleep or in a driver call: no handler below main catches KeyboardInterrupt
\* (theirs are `except Exception`), so the frames are unwound, their locals
\* are gone, and main's handler (lines 204-205) is reached. hpc and spc keep
\* the place the interrupt came at.
KeyboardInterrupt ==
    /\ mpc \in {"try", "session"}
    /\ mpc' = "finally"
    /\ index' = 0
    /\ hour_start' = 0
    /\ hour_unfollow_count' = 0
    /\ waitLeft' = 0
    /\ gate' = NoGate
    /\ stats' = NoStats
    /\ outcome' = "none"
    /\ visit' = NoVisit
    /\ cdLeft' = 0
    /\ attempt' = 0
    /\ expected_count' = 0
    /\ source' = NoSource
    /\ round' = 0
    /\ last_height' = -1
    /\ stale_rounds' = 0
    /\ requests' = 0
    /\ usernames' = <<>>
    /\ UNCHANGED <<spc, dry_run, now, cd, driverCalls, wall, last, deviations>>
    /\ UNCHANGED <<hpc, best, located, cooloff, harvested>>
    /\ UNCHANGED <<args, targets, answer, sessionCalls, unfollowCalls, quitCalls>>
    /\ UNCHANGED <<compareVars, diskVars>>

\* The same runs, with Ctrl+C at any point of the harvest or of the session.
NextInterrupt ==
    \/ ScrapeStart
    \/ \E tenths \in HarvestCooldownTenths : OpenModal(TRUE, tenths)
    \/ OpenModal(FALSE, 0)
    \/ HarvestCooldown
    \/ ReopenModal
    \/ \E n \in ExpectedCounts : ReadExpectedCount(n)
    \/ \E src \in Sources : GetModal(TRUE, src)
    \/ GetModal(FALSE, NoSource)
    \/ \E kind \in {"read", "relocated", "lost"} : ScrollRound(kind, FALSE, 0)
    \/ \E tenths \in HarvestCooldownTenths : ScrollRound("read", TRUE, tenths)
    \/ ScrollResume
    \/ ScrollExhausted
    \/ \E ok \in BOOLEAN : ExtractUsernames(ok)
    \/ \E delay \in CoolOffDelays : RetryAfterCoolOff(delay)
    \/ ReturnFollowing
    \/ SaveFollowing
    \/ SessionStart
    \/ QuotaCheck
    \/ QuotaWaitBlock
    \/ QuotaWaitEnd
    \/ \E i \in 1..Len(DryRunDelays) : DryRunStep(i)
    \/ LoadProfile
    \/ \E tenths \in CooldownTenths : FirstRateCheck(TRUE, tenths)
    \/ FirstRateCheck(FALSE, 0)
    \/ CooldownBlock
    \/ ReloadProfile
    \/ \E class \in {"eligible", "private", "not_following"} : Classify(class)
    \/ \E found \in BOOLEAN : ClickFollowing(found)
    \/ \E found \in BOOLEAN : ConfirmUnfollow(found)
    \/ \E tenths \in CooldownTenths : SecondRateCheck(TRUE, tenths)
    \/ SecondRateCheck(FALSE, 0)
    \/ ReturnUnfollowed
    \/ RaiseInVisit
    \/ \E i \in 1..2 : Account(i)
    \/ KeyboardInterrupt
    \/ MainFinally

SpecInterrupt == InitCooldownRun /\ [][NextInterrupt]_vars

----------------------------------------------------------------------------
(* Properties of run_unfollow_session, checked under SpecHour and SpecSession *)

\* C1: in a live session the number of successful unfollows inside any one of
\* the consecutive 3600-second windows of wall-clock time that start with the
\* session never exceeds MAX_UNFOLLOWS_PER_HOUR.
C1_HourlyCap == wall.count <= MAX_UNFOLLOWS_PER_HOUR

\* C9: a dry-run session never touches the driver, counts nothing as private,
\* not followed or failed, and returns unfollowed = len(targets).
C9_DryRun ==
    dry_run =>
        /\ driverCalls = 0
        /\ stats.skipped_private = 0
        /\ stats.not_following = 0
        /\ stats.errors = 0
        /\ (spc = "done" => stats.unfollowed = Len(targets))

\* A dry-run session over a list of several targets has returned.
C9_Witness ==
    /\ dry_run
    /\ spc = "done"
    /\ Len(targets) = MaxTargets
    /\ stats.unfollowed = MaxTargets

\* C10: when a profile is classified private, unfollow_user returns
\* skipped_private with no click made; the loop then increments the
\* skipped_private counter and nothing else, and sleeps the brief pause of
\* 0.3-1.2 s before the next target.
C10_PrivateSkipped ==
    [][ /\ (spc = "classify" /\ visit'.class = "private") =>
              /\ spc' = "account"
              /\ outcome' = "skipped_private"
              /\ visit'.clicks = 0
        /\ (spc = "account" /\ visit.class = "private") =>
              /\ outcome = "skipped_private"
              /\ visit.clicks = 0
              /\ stats' = [stats EXCEPT !.skipped_private = @ + 1]
              /\ hour_unfollow_count' = hour_unfollow_count
              /\ last'.pace = "brief"
              /\ (now' - now) \in 3..12
      ]_vars

\* A private target has been skipped and paced, and the session went on to
\* the next target.
C10_Witness ==
    /\ ~dry_run
    /\ visit.class = "private"
    /\ last.outcome = "skipped_private"
    /\ stats.skipped_private = 1
    /\ spc = "check"
    /\ index > 1

\* The targets whose iteration of the loop has ended.
Processed ==
    IF spc = "start" THEN 0
    ELSE IF spc = "done" THEN Len(targets)
    ELSE index - 1

StatsTotal ==
    stats.unfollowed + stats.skipped_private + stats.not_following + stats.errors

\* C11: at every point of the session the four counters of stats add up to
\* the number of targets processed so far, and to len(targets) when the
\* session has returned.
C11_EveryTargetCounted == StatsTotal = Processed

\* A live session over several targets has returned with a private profile
\* and an error among its outcomes.
C11_Witness ==
    /\ ~dry_run
    /\ spc = "done"
    /\ Len(targets) = MaxTargets
    /\ stats.skipped_private > 0
    /\ stats.errors > 0

\* The iterations of a live session that have called unfollow_user.
Visits ==
    IF dry_run \/ spc = "start" THEN 0
    ELSE IF spc = "done" THEN Len(targets)
    ELSE IF spc \in {"check", "wait", "process"} THEN index - 1
    ELSE index

\* C12: the i-th call of unfollow_user is for the i-th target: the profiles
\* visited so far are the first targets of the list, in the order of the
\* list, one visit each, whatever cooldown, quota wait or outcome came
\* between; the reload after a cooldown is of the profile being visited.
C12_VisitedInOrder ==
    /\ unfollowCalls = SubSeq(targets, 1, Visits)
    /\ (spc \notin {"start", "done"} => index = Processed + 1)
    /\ visit.loads <= 2

\* A live session has visited all its targets after a cooldown that reloaded
\* a profile, an error and a skipped target.
C12_Witness ==
    /\ ~dry_run
    /\ spc = "done"
    /\ unfollowCalls = targets
    /\ Len(targets) = MaxTargets
    /\ visit.loads = 2
    /\ stats.errors > 0
    /\ stats.unfollowed < MaxTargets - 1

C22_ErrorsIsolated ==
    /\ [][(spc = "account" /\ outcome = "error") =>
             /\ stats' = [stats EXCEPT !.errors = @ + 1]
             /\ IF index < Len(targets)
                THEN index' = index + 1 /\ spc' = "check"
                ELSE index' = index /\ spc' = "done"]_vars
    /\ [][RaiseInVisit => (outcome' = "error" /\ spc' = "account")]_vars
    /\ [](spc = "done" => (index = Len(targets) /\ StatsTotal = Len(targets)))

\* A session has returned after an exception in the visit of its first
\* target and a successful unfollow of a later one.
C22_Witness ==
    /\ spc = "done"
    /\ ~dry_run
    /\ stats.errors >= 1
    /\ stats.unfollowed >= 1
    /\ last.outcome = "unfollowed"
    /\ visit.clicks >= 1
    /\ Len(unfollowCalls) = Len(targets)

C28_ExpiredWindowAdmits ==
    [][(spc = "check" /\ spc' # "check" /\ now - hour_start >= Sec(HourSeconds))
          => /\ hour_start' = now
             /\ hour_unfollow_count' = 0
             /\ waitLeft' = 0
             /\ spc' = "process"
             /\ now' = now
             /\ index' = index]_vars

\* The check before a target found the cap reached in a window that had
\* expired, and let the target through.
C28_Witness ==
    /\ spc = "process"
    /\ ~dry_run
    /\ gate.how = "rolled"
    /\ gate.found >= MAX_UNFOLLOWS_PER_HOUR
    /\ hour_start = now
    /\ hour_unfollow_count = 0
    /\ waitLeft = 0

C30_LimitedRoundNotStale ==
    [][(hpc = "scroll" /\ hpc' = "scrollcooldown") => stale_rounds' <= stale_rounds]_vars

\* C31: the step that finishes a target of a live session sleeps once, by
\* the outcome of that target alone: 170-240 s after unfollowed, 60-120 s
\* after error, 0.3-1.2 s after skipped_private and not_following; the loop
\* then goes to the next target or ends, and the quota check that follows
\* takes no time of its own.
C31_PacedByOutcome ==
    [][ /\ (spc = "account") =>
              /\ spc' \in {"check", "done"}
              /\ last'.outcome = outcome
              /\ last'.delay = now' - now
              /\ \/ outcome = "unfollowed" /\ (now' - now) \in Sec(170)..Sec(240)
                 \/ outcome = "error" /\ (now' - now) \in Sec(60)..Sec(120)
                 \/ /\ outcome \in {"skipped_private", "not_following"}
                    /\ (now' - now) \in 3..12
        /\ (spc = "check") => now' = now
      ]_vars

\* A live session has just slept the error back-off after its last target,
\* having unfollowed one target and skipped another before.
C31_Witness ==
    /\ ~dry_run
    /\ spc = "done"
    /\ last.outcome = "error"
    /\ last.pace = "backoff"
    /\ last.delay = Sec(120)
    /\ stats.unfollowed >= 1
    /\ stats.skipped_private + stats.not_following >= 1

\* C32: a rate-limit phrase found by the check that follows the load of a
\* profile starts one cooldown with the page untouched; the cooldown is slept
\* in full and then the profile is loaded a second time, after which the
\* visit goes on to the classification (or ends in "error" when that load
\* raises). The profile is classified only from the "classify" position and
\* clicked only after it, so never on the load that showed the phrase.
C32_ReloadAfterDetection ==
    [][ /\ (spc = "loaded" /\ cd'.detections > cd.detections) =>
              /\ spc' = "cooldown1"
              /\ cd'.pauses = cd.pauses + 1
              /\ cdLeft' = CooldownSeconds(cd'.tenths)
              /\ visit' = visit
              /\ visit = [loads |-> 1, clicks |-> 0, class |-> "none"]
        /\ (spc = "cooldown1") =>
              \/ /\ spc' = "cooldown1"
                 /\ cdLeft' < cdLeft
                 /\ visit' = visit
                 /\ cd'.pauses = cd.pauses
              \/ /\ spc' = "classify"
                 /\ cdLeft = 0
                 /\ cd.slept = CooldownSeconds(cd.tenths)
                 /\ cd'.pauses = cd.pauses
                 /\ visit' = [loads |-> 2, clicks |-> 0, class |-> "none"]
              \/ /\ spc' = "account"
                 /\ cdLeft = 0
                 /\ outcome' = "error"
                 /\ visit' = visit
        /\ (visit'.class \notin {visit.class, "none"}) => spc = "classify"
        /\ (visit'.clicks > visit.clicks) => spc \in {"click", "confirm"}
        /\ (spc' = "classify" /\ spc # "classify") =>
              \/ spc = "loaded" /\ cd'.detections = cd.detections
              \/ spc = "cooldown1" /\ visit'.loads = visit.loads + 1
      ]_vars

\* A profile that showed the phrase at its first load has been loaded again
\* after the cooldown and then unfollowed.
C32_Witness ==
    /\ spc = "postcheck"
    /\ visit = [loads |-> 2, clicks |-> 2, class |-> "eligible"]
    /\ cd.pauses = 1
    /\ cd.detections = 1
    /\ ~cd.active
    /\ cd.slept = CooldownSeconds(cd.tenths)
    /\ cd.slept >= 600

\* C33: a rate-limit phrase found by the check that follows the confirmed
\* unfollow starts a cooldown and changes nothing else of the visit; when the
\* cooldown has been slept in full unfollow_user returns "unfollowed", with no
\* further load or click, and the loop then adds one to stats.unfollowed and
\* one to the window count and leaves the other counters alone.
C33_PostActionCooldown ==
    /\ [][ /\ (spc = "postcheck" /\ cd'.detections > cd.detections) =>
                 /\ spc' = "cooldown2"
                 /\ cdLeft' = CooldownSeconds(cd'.tenths)
                 /\ visit' = visit
                 /\ stats' = stats
           /\ (spc = "cooldown2") =>
                 \/ /\ spc' = "cooldown2"
                    /\ cdLeft' < cdLeft
                    /\ visit' = visit
                    /\ unfollowCalls' = unfollowCalls
                 \/ /\ spc' = "account"
                    /\ cdLeft = 0
                    /\ cd.slept = CooldownSeconds(cd.tenths)
                    /\ outcome' = "unfollowed"
                    /\ visit' = visit
                    /\ unfollowCalls' = unfollowCalls
           /\ (spc = "account" /\ outcome = "unfollowed") =>
                 /\ stats' = [stats EXCEPT !.unfollowed = @ + 1]
                 /\ hour_unfollow_count' = hour_unfollow_count + 1
                 /\ unfollowCalls' = unfollowCalls
                 /\ (index' = index + 1 \/ spc' = "done")
         ]_vars
    /\ [](spc = "cooldown2" => visit.clicks = 2)

\* The first target of a live session was unfollowed, the check after the
\* action found the phrase, the cooldown was slept, and the loop has counted
\* the target as unfollowed.
C33_Witness ==
    /\ ~dry_run
    /\ spc = "check"
    /\ index = 2
    /\ visit = [loads |-> 1, clicks |-> 2, class |-> "eligible"]
    /\ cd.pauses = 1
    /\ ~cd.active
    /\ cd.slept >= 600
    /\ last.outcome = "unfollowed"
    /\ stats = [NoStats EXCEPT !.unfollowed = 1]
    /\ hour_unfollow_count = 1
    /\ Len(unfollowCalls) = 1

\* C34: the list _extract_usernames returns holds no two entries that are
\* equal after strip() and lower().
C34_NoNormalizedDuplicates ==
    hpc = "extracted" =>
        \A i, j \in 1..Len(usernames) :
            i # j => Lower(Strip(usernames[i])) # Lower(Strip(usernames[j]))

\* The phrase occurs in the page at position i when letter case is ignored.
OccursAt(phrase, page, i) ==
    /\ i + Len(phrase) - 1 <= Len(page)
    /\ \A j \in 1..Len(phrase) : LowerChar(page[i + j - 1]) = LowerChar(phrase[j])

\* C36: check_for_rate_limit returns True exactly when the page can be read
\* and some phrase of RATE_LIMIT_PHRASES occurs in it somewhere, letter case
\* ignored; when the page cannot be read it returns False. The call changes
\* nothing but the count of positive checks.
C36_PhraseDetection ==
    /\ [](hpc = "checked" =>
             ((cd.detections = 1) <=>
                 /\ source.readable
                 /\ \E k \in 1..Len(RATE_LIMIT_PHRASES) :
                       \E i \in 1..Len(source.page) :
                           OccursAt(RATE_LIMIT_PHRASES[k], source.page, i)))
    /\ [][(hpc = "page" /\ hpc' = "checked") =>
              /\ UNCHANGED <<compareVars, diskVars, mainVars>>
              /\ UNCHANGED <<spc, index, now, quotaVars, stats, outcome, cdLeft, visit>>
              /\ UNCHANGED <<source, usernames, harvested, round, stale_rounds>>
              /\ cd' \in {cd, Detected(cd)}]_vars

\* The check has returned True on a readable page that holds a phrase only
\* in a letter case other than the listed one.
C36_Witness ==
    /\ hpc = "checked"
    /\ cd.detections = 1
    /\ source.readable
    /\ \A k \in 1..Len(RATE_LIMIT_PHRASES) : ~Contains(source.page, RATE_LIMIT_PHRASES[k])

\* C35: in an attempt whose expected count read as 0 and whose modal was
\* found, nothing makes the loop start another attempt: the scroll and the
\* extraction go on within the attempt, and the verification returns the
\* extracted list as it is, with no cool-off and no retry.
C35_UnknownCountAccepted ==
    [][ /\ (expected_count = 0 /\ hpc \in {"scroll", "scrollcooldown", "extract"}) =>
              /\ attempt' = attempt
              /\ hpc' \in {"scroll", "scrollcooldown", "extract", "verify"}
              /\ expected_count' = 0
        /\ (expected_count = 0 /\ hpc = "verify") =>
              /\ hpc' = "returned"
              /\ harvested' = [returned |-> TRUE, items |-> usernames]
              /\ attempt' = attempt
              /\ cooloff' = cooloff
      ]_vars

\* The first attempt could not read the count, found the modal, extracted
\* nothing, and scrape_following has returned the empty list.
C35_Witness ==
    /\ hpc = "returned"
    /\ attempt = 1
    /\ expected_count = 0
    /\ located
    /\ round > 0
    /\ harvested = [returned |-> TRUE, items |-> <<>>]
    /\ cooloff.retries = 0

\* C37: the window count is always between 0 and MAX_UNFOLLOWS_PER_HOUR; in
\* a live session it is the number of targets unfollowed since the window
\* was last reset (since the session began, before the first reset), in a dry
\* run it stays 0; and unfollow_user is called only with the count below the
\* cap, which it stays below for as long as the call runs.
C37_WindowCount ==
    /\ [](/\ hour_unfollow_count \in 0..MAX_UNFOLLOWS_PER_HOUR
          /\ hour_unfollow_count = IF dry_run THEN 0 ELSE stats.unfollowed - gate.base
          /\ (spc \in {"loaded", "cooldown1", "classify", "click", "confirm",
                        "postcheck", "cooldown2"})
                => hour_unfollow_count < MAX_UNFOLLOWS_PER_HOUR)
    /\ [][(unfollowCalls' # unfollowCalls)
              => /\ hour_unfollow_count < MAX_UNFOLLOWS_PER_HOUR
                 /\ hour_unfollow_count' = hour_unfollow_count]_vars

\* A live session is visiting a target in its second window, having
\* unfollowed one target since the reset and twenty before it.
C37_Witness ==
    /\ ~dry_run
    /\ spc = "loaded"
    /\ gate.base = MAX_UNFOLLOWS_PER_HOUR
    /\ stats.unfollowed = MAX_UNFOLLOWS_PER_HOUR + 1
    /\ hour_unfollow_count = 1
    /\ hour_start > 0

\* C38: a run of main that has got its driver from login does not end
\* without a driver.quit() call.
C38_QuitOnEveryExit == mpc = "exited" => quitCalls >= 1

\* C39: every compare() call returns a list and has written it to the target
\* file; when config/whitelist.json is missing or is not valid JSON, each
\* followed name that is not empty and whose normalized form is not that of a
\* follower (argument or followers file, as compare reads them) is in the
\* returned list and in the file, in its normalized form.
C39_NoWhitelistKeepsAll ==
    /\ calls > 0 => (result.returned /\ outputFile = ListFile(result.items))
    /\ (calls > 0 /\ whitelistFile.kind \in {"missing", "invalid"}) =>
          LET followers == IF followersArg.given THEN followersArg.items
                           ELSE load_json_list(followersFile)
          IN  \A i \in 1..Len(followingArg.items) :
                  (/\ Truthy(followingArg.items[i])
                   /\ Normalize(followingArg.items[i]) \notin NormSet(followers))
                      => /\ Normalize(followingArg.items[i]) \in Range(result.items)
                         /\ Normalize(followingArg.items[i]) \in Range(outputFile.items)

\* compare() has returned and written a non-empty list with a whitelist file
\* that is not valid JSON, a follower having been excluded.
C39_Witness ==
    /\ calls > 0
    /\ whitelistFile.kind = "invalid"
    /\ result.returned
    /\ result.items # <<>>
    /\ outputFile = ListFile(result.items)
    /\ Len(result.items) < Cardinality(NormSet(followingArg.items))

\* C40: whatever the server answers, get_following of the Web API edition
\* comes to an end, by returning its list or by raising.
C40_PaginationEnds == <>(hpc \in {"returned", "raised"})

\* C18: auto_pause_after_rate_limit logs a progress message before every
\* sleep, sleeps no more than 60 s at a time, and has slept at least the
\* duration d it drew, in whole seconds, when it returns.
C18_PauseServed ==
    /\ cd.messages = cd.chunks
    /\ cd.slept <= 60 * cd.chunks
    /\ (cd.pauses > 0 /\ ~cd.active) => cd.slept * 10 >= cd.tenths * 60

----------------------------------------------------------------------------
(* Properties of the cooldown in both of its callers, checked under        *)
(* SpecCooldown                                                            *)

\* C19: every detection of a rate limit starts exactly one cooldown, and
\* starts it only when no cooldown is in progress; while a cooldown is in
\* progress neither the session nor the harvest makes a driver request.
C19_OneCooldownPerDetection ==
    /\ [](cd.pauses = cd.detections)
    /\ [][/\ (cd'.detections # cd.detections) =>
                /\ ~cd.active
                /\ cd'.active
                /\ cd'.detections = cd.detections + 1
          /\ (cd'.pauses # cd.pauses) => cd'.detections # cd.detections
          /\ (cd.active /\ cd'.active) =>
                /\ driverCalls' = driverCalls
                /\ requests' = 0
                /\ cdLeft' < cdLeft
          /\ (cd.active /\ ~cd'.active) => cdLeft = 0]_vars

\* A second cooldown of a session is counting down, after the first one has
\* returned and the session has gone on.
C19_Witness ==
    /\ spc = "cooldown2"
    /\ cd.active
    /\ cd.pauses = 2
    /\ cd.detections = 2
    /\ cd.chunks >= 1
    /\ cdLeft > 0
    /\ driverCalls > 0

\* C23: a KeyboardInterrupt raised during the harvest or during the session,
\* wherever they are, takes main into its finally block, which calls
\* driver.quit(); the process ends with exactly one such call.
C23_QuitOnInterrupt ==
    /\ [](quitCalls <= 1 /\ (mpc = "exited" => quitCalls = 1))
    /\ [][(mpc \in {"try", "session"} /\ mpc' \notin {mpc, "scraped"})
              => (mpc' = "finally" /\ quitCalls' = 0)]_vars
    /\ [][mpc = "finally" => (mpc' = "exited" /\ quitCalls' = 1)]_vars

\* The process has ended with one driver.quit() call after an interrupt that
\* came during the countdown of a cooldown inside unfollow_user.
C23_Witness ==
    /\ mpc = "exited"
    /\ quitCalls = 1
    /\ spc = "cooldown1"
    /\ cd.active
    /\ cd.chunks >= 1
    /\ cd.slept < CooldownSeconds(cd.tenths)

----------------------------------------------------------------------------
(* Properties of scrape_following(), checked under SpecHarvest *)

\* All the accounts of the source are in the list the attempt extracted.
FullyLoaded == usernames = TargetList(source.size)

\* No fault has occurred in this harvest: no rate limit, no stale or lost
\* modal, no failed extraction.
Faultless == deviations = HarvestDeviations

C15_BestReturned ==
    (/\ harvested.returned
     /\ cooloff.retries = MAX_RETRIES
     /\ Incomplete(expected_count, Len(harvested.items)))
        => Len(harvested.items) >= best

\* C16: an attempt that still had a retry left ends the harvest, that is, it
\* passed the count verification, only if its count S and the expected
\* count E > 0 satisfy S / E >= 0.90.
C16_RatioThreshold ==
    (hpc = "returned" /\ attempt <= MAX_RETRIES /\ expected_count > 0)
        => Len(harvested.items) * 100 >= expected_count * CountThresholdPercent

\* C17: one call of scrape_following makes at most 3 attempts; every attempt
\* after the first opens the page anew and begins right after a cool-off
\* sleep of 5 to 10 s; an attempt that passes the count verification ends the
\* harvest at once, with no further attempt.
C17_RetryAfterCoolOff ==
    /\ [](/\ attempt <= MAX_RETRIES + 1
          /\ (hpc = "open" /\ attempt > 1) => cooloff.slept \in Sec(5)..Sec(10))
    /\ [][(attempt' > attempt /\ attempt > 0)
              => (hpc' = "open" /\ round' = 0 /\ usernames' = <<>>)]_vars
    /\ [][(hpc = "verify" /\ ~Incomplete(expected_count, Len(usernames)))
              => (hpc' = "returned" /\ attempt' = attempt)]_vars

\* C20: when no attempt of the harvest located the modal, the run aborts:
\* main does not go on to compare() and to its report on an empty list.
C20_MissingModalAborts ==
    ~located => (~result.returned /\ mpc \in {"try", "scraped"})

\* C21: an attempt in which the modal is not located raises nothing and uses
\* up one attempt, and the attempt after it begins after the same cool-off
\* sleep of 5 to 10 s and the same fresh opening as after a low count.
C21_MissingModalRetried ==
    [][(hpc = "modal" /\ hpc' = "open")
          => /\ attempt' = attempt + 1
             /\ ~harvested'.returned
             /\ round' = 0 /\ usernames' = <<>>
             /\ cooloff'.slept \in Sec(5)..Sec(10)]_vars

----------------------------------------------------------------------------
(* Properties of main(), checked under SpecMain *)

LiveUnfollowing == ~args.dry_run /\ (sessionCalls > 0 \/ unfollowCalls # <<>>)

\* C2: in a live run of main, no identifier whose normalized form is in the
\* whitelist file is passed to unfollow_user.
C2_WhitelistNeverUnfollowed ==
    \A k \in 1..Len(unfollowCalls) :
        \A j \in 1..Len(whitelistFile.items) :
            Normalize(unfollowCalls[k]) # Normalize(whitelistFile.items[j])

----------------------------------------------------------------------------
(* Properties of compare(), checked under SpecCompare *)

\* following minus followers, on identifiers: two identifiers are equal iff
\* their normalized forms are equal.
ListMinus(F, R) ==
    SelectSeq(F, LAMBDA f : \A j \in 1..Len(R) : Normalize(f) # Normalize(R[j]))

ReturnedModeA == result.returned /\ ~followersArg.given

\* C4: every element of compare(F) (no followers given) is the normalized form
\* of some element of F, and no element of compare(F) has its normalized form
\* equal to that of a whitelist entry.
C4_SetLaw ==
    ReturnedModeA =>
        \A k \in 1..Len(result.items) :
            /\ \E i \in 1..Len(followingArg.items) :
                  result.items[k] = Normalize(followingArg.items[i])
            /\ \A j \in 1..Len(whitelistFile.items) :
                  Normalize(result.items[k]) # Normalize(whitelistFile.items[j])

\* compare(F) has returned a non-empty list while a followed account was
\* whitelisted under a different spelling.
C4_Witness ==
    /\ ReturnedModeA
    /\ result.items # <<>>
    /\ \E i \in 1..Len(followingArg.items), j \in 1..Len(whitelistFile.items) :
          /\ followingArg.items[i] # whitelistFile.items[j]
          /\ Truthy(followingArg.items[i])
          /\ Normalize(followingArg.items[i]) = Normalize(whitelistFile.items[j])

\* C5: compare(following) with no followers argument returns the ascending
\* sort of normalize(following) minus normalize(whitelist), whatever else is
\* on disk.
C5_ModeA ==
    ReturnedModeA =>
        result.items = Sorted(NormSet(followingArg.items) \ NormSet(whitelistFile.items))

\* C6: compare(F, R) returns the same list as compare(F minus R) called with no
\* followers argument and the same whitelist.
C6_NonReciprocal ==
    (result.returned /\ followersArg.given) =>
        result.items =
            compare(Arg(ListMinus(followingArg.items, followersArg.items)), NoArg,
                    followingFile, followersFile, whitelistFile)

C8_StrictlyAscending ==
    result.returned =>
        /\ \A k \in 1..Len(result.items) : Normalize(result.items[k]) = result.items[k]
        /\ \A k \in 1..(Len(result.items) - 1) :
              StrLess(result.items[k], result.items[k + 1])

\* compare() returned two or more targets from a following list that holds
\* two spellings of the same handle.
C8_Witness ==
    /\ result.returned
    /\ Len(result.items) >= 2
    /\ \E i, j \in 1..Len(followingArg.items) :
          /\ followingArg.items[i] # followingArg.items[j]
          /\ Normalize(followingArg.items[i]) = Normalize(followingArg.items[j])
          /\ Normalize(followingArg.items[i]) \in Range(result.items)

\* C24: compare() has written the list it returns to
\* data/not_following_back.json, element for element, when it returns; so in
\* a run of main that scrapes, the target list is in that file before the
\* session is called and before any unfollow_user call.
C24_PersistedBeforeUnfollow ==
    /\ result.returned => outputFile = ListFile(result.items)
    /\ (mpc \in {"preview", "session", "finally", "exited"} /\ ~args.skip_scrape
            /\ result.returned)
          => (targets = result.items /\ outputFile = ListFile(targets))
    /\ (~args.skip_scrape /\ (sessionCalls > 0 \/ unfollowCalls # <<>>))
          => (result.returned /\ outputFile = ListFile(targets))

\* A live run that scraped has passed two targets to unfollow_user, and
\* both are in the file.
C24_Witness ==
    /\ ~args.skip_scrape
    /\ ~args.dry_run
    /\ Len(unfollowCalls) = 2
    /\ unfollowCalls = targets
    /\ outputFile.kind = "list"
    /\ outputFile.items = targets


----------------------------------------------------------------------------
(* Properties of the Web API edition, checked under SpecApi *)

\* C25: a friendships/destroy request has been sent only in a run without
\* --dry-run in which the answer at the prompt, trimmed and lower-cased, is
\* "yes"; in every other run none is sent.
C25_ApiDryRunOrUnconfirmed ==
    unfollowCalls # <<>> =>
        /\ ~args.dry_run
        /\ answer.kind = "text"
        /\ Normalize(answer.text) = <<121, 101, 115>>

\* A live run has sent its requests after the answer " YEs".
C25_Witness ==
    /\ mpc = "exited"
    /\ ~args.dry_run
    /\ answer = TextAnswer(<<32, 89, 69, 115>>)
    /\ Len(unfollowCalls) = 2
    /\ unfollowCalls = targets

\* C26: no account whose username, trimmed and lower-cased, is in the
\* whitelist the run loaded is sent a friendships/destroy request.
C26_ApiWhitelistKept ==
    \A k \in 1..Len(unfollowCalls) :
        Normalize(unfollowCalls[k]) \notin load_whitelist(whitelistFile)

\* A live run fetched two accounts, one of which the whitelist holds in
\* another spelling, and has sent a request for the other one only.
C26_Witness ==
    /\ mpc = "exited"
    /\ Len(followingArg.items) = 2
    /\ Len(unfollowCalls) = 1
    /\ \E i \in 1..2 :
          /\ followingArg.items[i] \notin Range(whitelistFile.items)
          /\ Normalize(followingArg.items[i]) \in load_whitelist(whitelistFile)


=============================================================================
